---- MODULE Spec2Model ----
(***************************************************************************)
(* AutoGraph: the TTL/LRU cache (core/cache.py), the asynchronous          *)
(* pipeline orchestrator (core/async_pipeline.py) and the ensemble fusion  *)
(* of rule and ML relation candidates                                      *)
(* (processors/hybrid_relation_extractor.py).                              *)
(*                                                                         *)
(* The specifications of the module share its variables:                   *)
(*   Spec      one caller driving one LRUCache (get/set/invalidate/clear/  *)
(*             stats) while logical time passes;                           *)
(*   LruSpec   the same caller on a larger cache whose entries never       *)
(*             expire;                                                     *)
(*   ConcSpec  several tasks calling the same LRUCache through its         *)
(*             asyncio.Lock;                                               *)
(*   CtorSpec  one caller on an LRUCache constructed with any max_size;    *)
(*   BatchSpec run_batch over several sources, each a run_single with its  *)
(*             chunk tasks, under the batch semaphore;                     *)
(*   FusionSpec one HybridRelationExtractor whose _ensemble_relations is   *)
(*             called repeatedly on the same two candidate lists;          *)
(*   ChunkSpec _split_text_into_chunks on one text;                        *)
(*   KeySpec   the cache keys of the tagging and relation caches;          *)
(*   DedupSpec the aggregation and deduplication of chunk results;         *)
(*   RunSpec   run_single called repeatedly on one source, with its chunk  *)
(*             tasks, the processors and the three caches;                 *)
(*   StreamSpec run_streaming over one file;                               *)
(*   BatchLiveSpec BatchSpec with an event loop that keeps running;        *)
(*   WeightSpec _ensemble_relations under the configurable weights;        *)
(*   ProcSpec  run_single with every processor call: its form, the worker  *)
(*             pool and the cache decorator of process_async.              *)
(***************************************************************************)
EXTENDS Integers, Sequences, FiniteSets, TLC

\* ---------------------------------------------------------------- bounds
NumKeys == 3
NumValues == 2
MaxTime == 2
MaxTtl == 1
MaxHits == 1
MaxCap == 2
NumTasks == 2
MaxCalls == 3
NumSources == 2
MaxChunks == 2
MaxConcurrent == 1
MaxRules == 2
MaxMl == 1
MaxFill == 4
MaxFuseCalls == 2
MaxTextLen == 5
MaxChunkSize == 3
MaxKeyCalls == 2
MaxResultChunks == 2
MaxChunkEntities == 2
MaxChunkRelations == 1
MaxAggCalls == 2
MaxRuns == 2
MaxReadSize == 2
MaxWorkers == 2

\* ------------------------------------------------------ program constants
\* 1.0 as a confidence
One == 10000000
\* min_threshold = 0.3
MinThreshold == 3000000
\* high_confidence_threshold = 0.8
HighConfidenceThreshold == 8000000
\* medium_confidence_threshold = 0.6
MediumConfidenceThreshold == 6000000
\* the default rule_weight 0.3 and ml_weight 0.7
DefaultRuleWeight == 30
DefaultMlWeight == 70

\* Python's None: a missing ttl, a cache miss.
None == -1

\* the call raised instead of returning
Raised == -2

Keys == 1..NumKeys
Values == 1..NumValues
Times == 0..MaxTime
\* the ttl arguments a caller may pass: None, 0, 1, ...
TtlArgs == {None} \cup (0..MaxTtl)
\* the default_ttl a cache may be constructed with
DefaultTtls == {None} \cup (1..MaxTtl)
\* the max_size a caller may pass to LRUCache(...): negative, zero, positive
CapacityArgs == {-1, 0, 1}

VARIABLES
    cache,        \* LRUCache.cache: the OrderedDict, oldest position first
    max_size,     \* LRUCache.max_size
    default_ttl,  \* LRUCache.default_ttl
    now,          \* time.time(), in logical units
    last,         \* the last completed cache call: arguments, result, what it removed
    setInfo,      \* per key: the arguments and time of its most recent set
    touchOrder,   \* resident keys by their last touch (set or successful get), oldest first
    tpc,          \* per task: where it stands in its cache call
    tcall,        \* per task: the call it is making
    lock,         \* LRUCache._lock: the task holding it, 0 when free
    serial,       \* the cache that the completed calls give when run one after another
    agree,        \* every completed call returned what it returns in that serial run
    calls,        \* number of calls started
    max_concurrent, \* run_batch's max_concurrent
    permits,      \* the value of run_batch's semaphore
    rpc,          \* per source: the step its run_single is at
    hist,         \* per source: the steps its run_single has completed, in order
    cpc,          \* per source: the state of each of its chunk tasks
    storeOut,     \* per source: how the storage call ended
    storeCalls,   \* per source: number of storage calls
    bpc,          \* run_batch: "gathering" or "returned"
    ret,          \* what run_batch gave its caller
    failed_sources, \* run_batch's local list of (source, error)
    ensemble_method, \* HybridRelationExtractor.ensemble_method
    rule_weight,  \* HybridRelationExtractor.rule_weight, in hundredths
    ml_weight,    \* HybridRelationExtractor.ml_weight, in hundredths
    rule_relations, \* the rule candidates: the list object the caller holds
    ml_relations, \* the ML candidates: the list object the caller holds
    result,       \* what the last _ensemble_relations call returned
    flog,         \* what the last _ensemble_relations call logged
    fcalls,       \* number of _ensemble_relations calls made
    flast,        \* the last call: its inputs on entry, its weights, its weighted and merged lists
    first,        \* what the first _ensemble_relations call returned
    text,         \* the text handed to _split_text_into_chunks
    max_chunk_size, \* its max_chunk_size
    chunks,       \* the list it returned
    chunked,      \* it has been called
    key_log,      \* the cache keys computed: what was asked, the string hashed, the key
    chunk_results, \* run_single's chunk_results: one (entities, relationships) per chunk
    aggregated,   \* unique_entities and unique_relationships of the last aggregation
    previous,     \* those of the aggregation before it
    again,        \* the deduplications applied to the aggregated lists
    acalls,       \* number of aggregations made
    use_cache,    \* run_single's use_cache argument
    zero_cache,   \* the cache configured with size 0 ("none": all hold their entries)
    text_cache,   \* cache_manager.text_cache: the entries it holds
    ner_cache,    \* cache_manager.ner_cache: the entries it holds
    relation_cache, \* cache_manager.relation_cache: the entries it holds
    tasks,        \* the _process_text_chunk coroutines of the current call
    ended,        \* the tasks that have ended, in the order they ended
    run,          \* number of run_single calls made
    phase,        \* where run_single or run_streaming stands
    invoked,      \* the extractor and processor invocations made, by run and chunk
    outcomes,     \* per finished run_single: what its caller got
    chunk_size,   \* run_streaming's chunk_size
    spos,         \* the file position of run_streaming
    chunk_number, \* run_streaming's chunk_number
    yielded,      \* the PipelineResults yielded so far
    slog,         \* the chunk numbers of the errors logged by run_streaming
    processors,   \* self.processors: the configured processor list
    max_workers,  \* the max_workers of self.executor
    received,     \* per chunk of the current run: what its processors were handed, in order
    writes        \* the cache writes made: which cache, which category of result, by whom

cacheVars == <<cache, max_size, default_ttl, now, last, setInfo, touchOrder>>
concVars == <<tpc, tcall, lock, serial, agree, calls>>

batchVars == <<max_concurrent, permits, rpc, hist, cpc, storeOut, storeCalls, bpc, ret,
               failed_sources>>

fusionVars == <<ensemble_method, rule_weight, ml_weight, rule_relations, ml_relations,
                result, flog, fcalls, flast, first>>

chunkVars == <<text, max_chunk_size, chunks, chunked>>

keyVars == <<key_log>>

dedupVars == <<chunk_results, aggregated, previous, again, acalls>>

runVars == <<use_cache, zero_cache, text_cache, ner_cache, relation_cache, tasks, ended, run,
             phase, invoked, outcomes, chunk_size, spos, chunk_number, yielded, slog>>

\* what run_single and run_streaming leave alone of the groups they share
runRest == <<max_chunk_size, chunked, previous, again, acalls>>

procVars == <<processors, max_workers, received, writes>>

\* what the processor actions leave alone of the groups they share
procRest == <<text, max_chunk_size, chunked, use_cache, zero_cache, ended, invoked, outcomes,
              chunk_size, spos, chunk_number, yielded, slog, processors, max_workers>>

pipeVars == <<chunkVars, keyVars, dedupVars, runVars, procVars>>

vars == <<cacheVars, concVars, batchVars, fusionVars, pipeVars>>

Sources == 1..NumSources

Tasks == 1..NumTasks

\* ------------------------------------------------------------ CacheEntry
\* CacheEntry.__init__
CacheEntry(k, v, ttl, t) ==
    [key |-> k, data |-> v, created_at |-> t, ttl |-> ttl, hits |-> 0]

\* CacheEntry.is_expired, read at time t
IsExpired(e, t) ==
    IF e.ttl = None THEN FALSE ELSE t - e.created_at > e.ttl

\* CacheEntry.touch
Touch(e) == [e EXCEPT !.hits = @ + 1]

\* -------------------------------------------------------------- LRUCache
\* position of key k in the OrderedDict, 0 when absent (key in self.cache)
IndexOf(c, k) ==
    IF \E i \in 1..Len(c) : c[i].key = k
    THEN CHOOSE i \in 1..Len(c) : c[i].key = k
    ELSE 0

HasKey(c, k) == IndexOf(c, k) # 0

KeysOf(c) == {c[i].key : i \in 1..Len(c)}

\* del self.cache[key]
DelKey(c, k) == SelectSeq(c, LAMBDA e : e.key # k)

\* self.cache.move_to_end(key)
MoveToEnd(c, k) == Append(DelKey(c, k), c[IndexOf(c, k)])

\* LRUCache._cleanup_expired
CleanupExpired(c, t) == SelectSeq(c, LAMBDA e : ~IsExpired(e, t))

\* LRUCache.get: the value returned
GetResult(c, k, t) ==
    IF HasKey(c, k) /\ ~IsExpired(c[IndexOf(c, k)], t)
    THEN c[IndexOf(c, k)].data
    ELSE None

\* LRUCache.get: the cache afterwards
GetCache(c, k, t) ==
    IF ~HasKey(c, k) THEN c
    ELSE IF IsExpired(c[IndexOf(c, k)], t) THEN DelKey(c, k)
    ELSE LET i == IndexOf(c, k)
         IN  Append(DelKey(c, k), Touch(c[i]))

\* the eviction loop with its test off by one: while len(self.cache) > self.max_size
RECURSIVE EvictOldestLate(_, _)
EvictOldestLate(c, max) ==
    IF Len(c) > max /\ c # <<>> THEN EvictOldestLate(Tail(c), max) ELSE c

\* LRUCache.set: while len(self.cache) >= self.max_size: delete next(iter(self.cache))
RECURSIVE EvictOldest(_, _)
EvictOldest(c, max) ==
    IF Len(c) >= max /\ c # <<>> THEN EvictOldest(Tail(c), max) ELSE c

\* LRUCache.set: ttl = ttl or self.default_ttl  (None and 0 are both falsy)
EffectiveTtl(ttl, dflt) ==
    IF ttl = None \/ ttl = 0 THEN dflt ELSE ttl

\* a store that leaves the entry of a resident key as it is (setdefault)
StoreEntryKeepOld(c, k, v, ttl, t) ==
    IF HasKey(c, k) THEN c ELSE Append(c, CacheEntry(k, v, ttl, t))

\* LRUCache.set: self.cache[key] = CacheEntry(value, ttl); assigning to a key the
\* OrderedDict already holds keeps the key's position
StoreEntry(c, k, v, ttl, t) ==
    IF HasKey(c, k)
    THEN [c EXCEPT ![IndexOf(c, k)] = CacheEntry(k, v, ttl, t)]
    ELSE Append(c, CacheEntry(k, v, ttl, t))

\* LRUCache.set: the cache afterwards
SetCache(c, k, v, ttl, t, max, dflt) ==
    StoreEntry(EvictOldest(CleanupExpired(c, t), max), k, v, EffectiveTtl(ttl, dflt), t)

\* LRUCache.invalidate
InvalidateResult(c, k) == HasKey(c, k)
InvalidateCache(c, k) == DelKey(c, k)

\* LRUCache.clear
ClearCache(c) == <<>>

RECURSIVE SumHits(_)
SumHits(c) == IF c = <<>> THEN 0 ELSE Head(c).hits + SumHits(Tail(c))

Max(a, b) == IF a >= b THEN a ELSE b

\* LRUCache.stats: the dict returned; hit_rate is kept as the fraction
\* total_hits / max(1, size)
StatsResult(c, t, max) ==
    LET c1 == CleanupExpired(c, t)
    IN  [size |-> Len(c1), max_size |-> max, total_hits |-> SumHits(c1),
         hit_rate_num |-> SumHits(c1), hit_rate_den |-> Max(1, Len(c1))]

\* ------------------------------------------------------ bookkeeping
\* touchOrder restricted to the keys still resident in c
RECURSIVE KeepResident(_, _)
KeepResident(order, c) ==
    IF order = <<>> THEN <<>>
    ELSE IF HasKey(c, Head(order))
         THEN <<Head(order)>> \o KeepResident(Tail(order), c)
         ELSE KeepResident(Tail(order), c)

\* key k has just been touched
Touched(order, k) == Append(SelectSeq(order, LAMBDA x : x # k), k)

NoSet == [value |-> None, ttl |-> None, time |-> 0]

NoCall ==
    [op |-> "none", key |-> None, result |-> None, time |-> 0, sizeBefore |-> 0,
     evicted |-> <<>>, lru |-> <<>>, set |-> NoSet]

\* setInfo after a call that removed the keys in gone
Forget(info, gone) == [k \in Keys |-> IF k \in gone THEN NoSet ELSE info[k]]

\* the keys of the entries of c that have expired at time t
ExpiredKeys(c, t) == {c[i].key : i \in {j \in 1..Len(c) : IsExpired(c[j], t)}}

\* the entry made by the set recorded in info has expired at time t
SetExpired(info, t, dflt) ==
    /\ info # NoSet
    /\ EffectiveTtl(info.ttl, dflt) # None
    /\ t - info.time > EffectiveTtl(info.ttl, dflt)

\* ------------------------------------------------------------- actions
CacheInit ==
    /\ cache = <<>>
    /\ now = 0
    /\ last = NoCall
    /\ setInfo = [k \in Keys |-> NoSet]
    /\ touchOrder = <<>>

\* time.time() advances between two calls
Tick ==
    /\ now < MaxTime
    /\ now' = now + 1
    /\ last' = NoCall
    /\ UNCHANGED <<cache, max_size, default_ttl, setInfo, touchOrder>>

\* await cache.get(k)
Get(k) ==
    LET hit  == HasKey(cache, k) /\ ~IsExpired(cache[IndexOf(cache, k)], now)
        dead == HasKey(cache, k) /\ IsExpired(cache[IndexOf(cache, k)], now)
    IN  /\ hit => cache[IndexOf(cache, k)].hits < MaxHits
        /\ cache' = GetCache(cache, k, now)
        /\ last' = [NoCall EXCEPT
                      !.op = "get", !.key = k, !.time = now, !.sizeBefore = Len(cache),
                      !.result = GetResult(cache, k, now),
                      !.set = setInfo[k]]
        /\ touchOrder' = IF hit THEN Touched(touchOrder, k)
                         ELSE SelectSeq(touchOrder, LAMBDA x : x # k)
        /\ setInfo' = IF dead THEN Forget(setInfo, {k}) ELSE setInfo
        /\ UNCHANGED <<max_size, default_ttl, now>>

\* await cache.set(k, v, ttl)
Set(k, v, ttl) ==
    LET swept == CleanupExpired(cache, now)
        kept  == EvictOldest(swept, max_size)
        gone  == Len(swept) - Len(kept)
    IN  /\ cache' = SetCache(cache, k, v, ttl, now, max_size, default_ttl)
        /\ last' = [NoCall EXCEPT
                      !.op = "set", !.key = k, !.time = now, !.sizeBefore = Len(cache),
                      !.evicted = [i \in 1..gone |-> swept[i].key],
                      !.lru = KeepResident(touchOrder, swept)]
        /\ setInfo' = [Forget(setInfo, KeysOf(cache) \ KeysOf(kept))
                          EXCEPT ![k] = [value |-> v, ttl |-> ttl, time |-> now]]
        /\ touchOrder' = Touched(KeepResident(touchOrder, kept), k)
        /\ UNCHANGED <<max_size, default_ttl, now>>

\* LRUCache.set on a cache whose max_size is below 1: the eviction loop
\* empties the OrderedDict and goes on (0 >= max_size), next(iter(self.cache))
\* raises StopIteration, which leaves the coroutine as RuntimeError
SetRaises(max) == max < 1

\* await cache.set(k, v, ttl) raises: nothing is stored
SetRaise(k, v, ttl) ==
    /\ SetRaises(max_size)
    /\ cache' = EvictOldest(CleanupExpired(cache, now), max_size)
    /\ last' = [NoCall EXCEPT
                  !.op = "set", !.key = k, !.time = now, !.sizeBefore = Len(cache),
                  !.result = Raised]
    /\ setInfo' = Forget(setInfo, KeysOf(cache))
    /\ touchOrder' = <<>>
    /\ UNCHANGED <<max_size, default_ttl, now>>

\* await cache.invalidate(k)
Invalidate(k) ==
    /\ cache' = InvalidateCache(cache, k)
    /\ last' = [NoCall EXCEPT !.op = "invalidate", !.key = k, !.sizeBefore = Len(cache),
                              !.result = IF InvalidateResult(cache, k) THEN 1 ELSE 0]
    /\ touchOrder' = SelectSeq(touchOrder, LAMBDA x : x # k)
    /\ setInfo' = Forget(setInfo, {k})
    /\ UNCHANGED <<max_size, default_ttl, now>>

\* await cache.clear()
Clear ==
    /\ cache' = ClearCache(cache)
    /\ last' = [NoCall EXCEPT !.op = "clear", !.sizeBefore = Len(cache)]
    /\ touchOrder' = <<>>
    /\ setInfo' = Forget(setInfo, Keys)
    /\ UNCHANGED <<max_size, default_ttl, now>>

\* await cache.stats()
Stats ==
    /\ cache' = CleanupExpired(cache, now)
    /\ last' = [NoCall EXCEPT !.op = "stats", !.sizeBefore = Len(cache),
                              !.result = StatsResult(cache, now, max_size).size]
    /\ touchOrder' = SelectSeq(touchOrder, LAMBDA x : x \notin ExpiredKeys(cache, now))
    /\ setInfo' = Forget(setInfo, ExpiredKeys(cache, now))
    /\ UNCHANGED <<max_size, default_ttl, now>>

\* ------------------------------------------------- tasks on one cache
NoArgs == [op |-> "none", key |-> None, value |-> None, ttl |-> None]

\* the calls a task may make
CallArgs ==
    {[NoArgs EXCEPT !.op = "get", !.key = k] : k \in Keys}
    \cup {[op |-> "set", key |-> k, value |-> v, ttl |-> ttl] :
             k \in Keys, v \in Values, ttl \in TtlArgs}
    \cup {[NoArgs EXCEPT !.op = "invalidate", !.key = k] : k \in Keys}
    \cup {[NoArgs EXCEPT !.op = "clear"], [NoArgs EXCEPT !.op = "stats"]}

ConcInit ==
    /\ tpc = [t \in Tasks |-> "idle"]
    /\ tcall = [t \in Tasks |-> NoArgs]
    /\ lock = 0
    /\ serial = <<>>
    /\ agree = TRUE
    /\ calls = 0

\* a lock that lets every task in
CanAcquireAlways(l, t) == TRUE

\* asyncio.Lock.acquire returns only while no task holds the lock
CanAcquire(l, t) == l = 0

\* a task calls get, set, invalidate, clear or stats
Call(t, a) ==
    /\ tpc[t] = "idle"
    /\ calls < MaxCalls
    /\ tpc' = [tpc EXCEPT ![t] = "acquire"]
    /\ tcall' = [tcall EXCEPT ![t] = a]
    /\ calls' = calls + 1
    /\ UNCHANGED <<cache, now, lock, serial, agree>>

\* async with self._lock: __aenter__
Acquire(t) ==
    /\ tpc[t] = "acquire"
    /\ CanAcquire(lock, t)
    /\ lock' = t
    /\ tpc' = [tpc EXCEPT ![t] = IF tcall[t].op \in {"set", "stats"} THEN "cleanup" ELSE "body"]
    /\ UNCHANGED <<cache, now, tcall, serial, agree, calls>>

\* the call returns: __aexit__ releases the lock
Return(t) ==
    /\ lock' = 0
    /\ tpc' = [tpc EXCEPT ![t] = "idle"]
    /\ tcall' = [tcall EXCEPT ![t] = NoArgs]
    /\ UNCHANGED <<now, calls>>

\* LRUCache.get inside the lock
GetBody(t) ==
    /\ tpc[t] = "body" /\ tcall[t].op = "get"
    /\ cache' = GetCache(cache, tcall[t].key, now)
    /\ serial' = GetCache(serial, tcall[t].key, now)
    /\ agree' = (agree /\ GetResult(cache, tcall[t].key, now) = GetResult(serial, tcall[t].key, now))
    /\ Return(t)

\* LRUCache.set inside the lock: await self._cleanup_expired()
SetCleanup(t) ==
    /\ tpc[t] = "cleanup" /\ tcall[t].op = "set"
    /\ cache' = CleanupExpired(cache, now)
    /\ tpc' = [tpc EXCEPT ![t] = "body"]
    /\ UNCHANGED <<now, tcall, lock, serial, agree, calls>>

\* LRUCache.set inside the lock: the eviction loop and the store
SetBody(t) ==
    /\ tpc[t] = "body" /\ tcall[t].op = "set"
    /\ cache' = StoreEntry(EvictOldest(cache, max_size), tcall[t].key, tcall[t].value,
                           EffectiveTtl(tcall[t].ttl, default_ttl), now)
    /\ serial' = SetCache(serial, tcall[t].key, tcall[t].value, tcall[t].ttl, now,
                          max_size, default_ttl)
    /\ UNCHANGED agree
    /\ Return(t)

\* LRUCache.invalidate inside the lock
InvalidateBody(t) ==
    /\ tpc[t] = "body" /\ tcall[t].op = "invalidate"
    /\ cache' = InvalidateCache(cache, tcall[t].key)
    /\ serial' = InvalidateCache(serial, tcall[t].key)
    /\ agree' = (agree /\ InvalidateResult(cache, tcall[t].key) = InvalidateResult(serial, tcall[t].key))
    /\ Return(t)

\* LRUCache.clear inside the lock
ClearBody(t) ==
    /\ tpc[t] = "body" /\ tcall[t].op = "clear"
    /\ cache' = ClearCache(cache)
    /\ serial' = ClearCache(serial)
    /\ UNCHANGED agree
    /\ Return(t)

\* LRUCache.stats inside the lock: await self._cleanup_expired()
StatsCleanup(t) ==
    /\ tpc[t] = "cleanup" /\ tcall[t].op = "stats"
    /\ cache' = CleanupExpired(cache, now)
    /\ tpc' = [tpc EXCEPT ![t] = "body"]
    /\ UNCHANGED <<now, tcall, lock, serial, agree, calls>>

\* LRUCache.stats inside the lock: the dict is built from the cache as it is
StatsBody(t) ==
    /\ tpc[t] = "body" /\ tcall[t].op = "stats"
    /\ cache' = cache
    /\ serial' = CleanupExpired(serial, now)
    /\ agree' = (agree /\ [size |-> Len(cache), max_size |-> max_size,
                           total_hits |-> SumHits(cache),
                           hit_rate_num |-> SumHits(cache),
                           hit_rate_den |-> Max(1, Len(cache))]
                          = StatsResult(serial, now, max_size))
    /\ Return(t)

\* time.time() advances; a guarded section reads one time
ConcTick ==
    /\ lock = 0
    /\ now < MaxTime
    /\ now' = now + 1
    /\ UNCHANGED <<cache, concVars>>

\* ------------------------------------------- the pipeline orchestrator
\* the steps of run_single in the order of its code
StepOrder == <<"extract", "chunk", "dispatch", "aggregate", "persist", "done">>

\* the ways a storage call may end: it returned True, it returned False (the
\* backend reports failure), it raised
StoreOutcomes == {"ok", "false", "raise"}

\* a semaphore whose acquire never waits
SemAvailableAlways(p) == TRUE

\* asyncio.Semaphore.acquire returns only while the value is positive
SemAvailable(p) == p > 0

\* asyncio.gather(*chunk tasks): raises as soon as one task has raised, returns
\* once all have returned
GatherChunks(cs) ==
    IF \E i \in 1..Len(cs) : cs[i] = "failed" THEN "raise"
    ELSE IF \A i \in 1..Len(cs) : cs[i] = "ok" THEN "return"
    ELSE "wait"

\* run_single after _store_results_async: an exception propagates, the value the
\* storage returned is dropped
AfterStore(o) == IF o = "raise" THEN "failed" ELSE "done"

\* asyncio.gather without return_exceptions: the first exception is raised
GatherBatchRaising(steps) ==
    IF \E i \in 1..Len(steps) : steps[i] # "done"
    THEN [kind |-> "raised", items |-> <<>>]
    ELSE [kind |-> "list",
          items |-> [i \in 1..Len(steps) |-> [source |-> i, kind |-> "result"]]]

\* asyncio.gather(..., return_exceptions=True): one item per source, in source
\* order, a result or the exception raised
GatherBatch(steps) ==
    [kind |-> "list",
     items |-> [i \in 1..Len(steps) |->
                   [source |-> i, kind |-> IF steps[i] = "done" THEN "result" ELSE "exception"]]]

\* run_batch: the loop separating results from exceptions
SuccessfulResults(items) == SelectSeq(items, LAMBDA r : r.kind # "exception")
FailedSources(items) == SelectSeq(items, LAMBDA r : r.kind = "exception")

\* run_batch: return successful_results
BatchReturnValue(g) ==
    IF g.kind = "list"
    THEN [kind |-> "list", results |-> SuccessfulResults(g.items)]
    ELSE [kind |-> "raised", results |-> <<>>]

Finished(s) == rpc[s] \in {"done", "failed"}
InFlight(s) == rpc[s] \in {"extract", "chunk", "dispatch", "aggregate", "persist"}

BatchIdle ==
    /\ max_concurrent = 1
    /\ permits = 1
    /\ rpc = [s \in Sources |-> "waiting"]
    /\ hist = [s \in Sources |-> <<>>]
    /\ cpc = [s \in Sources |-> <<>>]
    /\ storeOut = [s \in Sources |-> "none"]
    /\ storeCalls = [s \in Sources |-> 0]
    /\ bpc = "gathering"
    /\ ret = [kind |-> "none", results |-> <<>>]
    /\ failed_sources = <<>>

\* run_batch has created the semaphore and one task per source
BatchInit ==
    /\ max_concurrent \in 1..MaxConcurrent
    /\ permits = max_concurrent
    /\ rpc = [s \in Sources |-> "waiting"]
    /\ hist = [s \in Sources |-> <<>>]
    /\ cpc = [s \in Sources |-> <<>>]
    /\ storeOut = [s \in Sources |-> "none"]
    /\ storeCalls = [s \in Sources |-> 0]
    /\ bpc = "gathering"
    /\ ret = [kind |-> "none", results |-> <<>>]
    /\ failed_sources = <<>>

\* process_with_semaphore: async with semaphore, then run_single starts
SemAcquire(s) ==
    /\ rpc[s] = "waiting"
    /\ SemAvailable(permits)
    /\ permits' = permits - 1
    /\ rpc' = [rpc EXCEPT ![s] = "extract"]
    /\ UNCHANGED <<max_concurrent, hist, cpc, storeOut, storeCalls, bpc, ret, failed_sources>>

\* a run_single that raises leaves process_with_semaphore without the release
EndRunKeepsPermit(s, how) ==
    /\ rpc' = [rpc EXCEPT ![s] = how]
    /\ hist' = [hist EXCEPT ![s] = Append(@, how)]
    /\ permits' = IF how = "failed" THEN permits ELSE permits + 1

\* run_single ends (returns or raises): the semaphore is released on the way out
EndRun(s, how) ==
    /\ rpc' = [rpc EXCEPT ![s] = how]
    /\ hist' = [hist EXCEPT ![s] = Append(@, how)]
    /\ permits' = permits + 1

\* run_single step 1: the text comes from the text cache or from the extractor
Extract(s) ==
    /\ rpc[s] = "extract"
    /\ rpc' = [rpc EXCEPT ![s] = "chunk"]
    /\ hist' = [hist EXCEPT ![s] = Append(@, "extract")]
    /\ UNCHANGED <<max_concurrent, permits, cpc, storeOut, storeCalls, bpc, ret, failed_sources>>

\* run_single step 1: the extractor raises
ExtractFail(s) ==
    /\ rpc[s] = "extract"
    /\ EndRun(s, "failed")
    /\ UNCHANGED <<max_concurrent, cpc, storeOut, storeCalls, bpc, ret, failed_sources>>

\* run_single step 2: _split_text_into_chunks gives n chunks, one task each
Dispatch(s, n) ==
    /\ rpc[s] = "chunk"
    /\ rpc' = [rpc EXCEPT ![s] = "dispatch"]
    /\ hist' = [hist EXCEPT ![s] = Append(@, "chunk")]
    /\ cpc' = [cpc EXCEPT ![s] = [i \in 1..n |-> "running"]]
    /\ UNCHANGED <<max_concurrent, permits, storeOut, storeCalls, bpc, ret, failed_sources>>

\* _process_text_chunk returns
ChunkOk(s, c) ==
    /\ c \in 1..Len(cpc[s])
    /\ cpc[s][c] = "running"
    /\ cpc' = [cpc EXCEPT ![s][c] = "ok"]
    /\ UNCHANGED <<max_concurrent, permits, rpc, hist, storeOut, storeCalls, bpc, ret,
                   failed_sources>>

\* _process_text_chunk raises
ChunkFail(s, c) ==
    /\ c \in 1..Len(cpc[s])
    /\ cpc[s][c] = "running"
    /\ cpc' = [cpc EXCEPT ![s][c] = "failed"]
    /\ UNCHANGED <<max_concurrent, permits, rpc, hist, storeOut, storeCalls, bpc, ret,
                   failed_sources>>

\* await asyncio.gather(chunk tasks) returns the chunk results
GatherOk(s) ==
    /\ rpc[s] = "dispatch"
    /\ GatherChunks(cpc[s]) = "return"
    /\ rpc' = [rpc EXCEPT ![s] = "aggregate"]
    /\ hist' = [hist EXCEPT ![s] = Append(@, "dispatch")]
    /\ UNCHANGED <<max_concurrent, permits, cpc, storeOut, storeCalls, bpc, ret, failed_sources>>

\* await asyncio.gather(chunk tasks) raises a chunk's exception
GatherFail(s) ==
    /\ rpc[s] = "dispatch"
    /\ GatherChunks(cpc[s]) = "raise"
    /\ EndRun(s, "failed")
    /\ UNCHANGED <<max_concurrent, cpc, storeOut, storeCalls, bpc, ret, failed_sources>>

\* run_single step 3: concatenate and deduplicate
Aggregate(s) ==
    /\ rpc[s] = "aggregate"
    /\ rpc' = [rpc EXCEPT ![s] = "persist"]
    /\ hist' = [hist EXCEPT ![s] = Append(@, "aggregate")]
    /\ UNCHANGED <<max_concurrent, permits, cpc, storeOut, storeCalls, bpc, ret, failed_sources>>

\* run_single steps 4 and 5: await self._store_results_async(...), then the
\* PipelineResult is built and returned
Store(s, o) ==
    /\ rpc[s] = "persist"
    /\ storeOut' = [storeOut EXCEPT ![s] = o]
    /\ storeCalls' = [storeCalls EXCEPT ![s] = @ + 1]
    /\ rpc' = [rpc EXCEPT ![s] = AfterStore(o)]
    /\ hist' = [hist EXCEPT ![s] = @ \o <<"persist", AfterStore(o)>>]
    /\ permits' = permits + 1
    /\ UNCHANGED <<max_concurrent, cpc, bpc, ret, failed_sources>>

\* run_batch: the gather over the sources has every item; separate and return
BatchReturn ==
    /\ bpc = "gathering"
    /\ \A s \in Sources : Finished(s)
    /\ bpc' = "returned"
    /\ ret' = BatchReturnValue(GatherBatch([s \in Sources |-> rpc[s]]))
    /\ failed_sources' = FailedSources(GatherBatch([s \in Sources |-> rpc[s]]).items)
    /\ UNCHANGED <<max_concurrent, permits, rpc, hist, cpc, storeOut, storeCalls>>

\* ------------------------------------------------- relation candidates
\* Confidences and their products are kept exactly, as integers in units of
\* 1/One; weights are integers in hundredths.
Conf(tenths) == tenths * (One \div 10)

Min(a, b) == IF a <= b THEN a ELSE b

\* a candidate as an extractor hands it over: no ensemble fields yet
Rel(s, t, r, c) ==
    [source |-> s, target |-> t, relationship |-> r, confidence |-> c,
     ensemble_source |-> "none", original_confidence |-> None,
     ensemble_agreement |-> FALSE]

\* the identities the inputs are drawn from: one pair, the same pair in other
\* letter case, the reversed pair, and the pair under another relationship
Idents ==
    {<<"A", "B", "works_for">>, <<"a", "b", "works_for">>,
     <<"B", "A", "works_for">>, <<"A", "B", "knows">>}

Confidences == {Conf(5), Conf(6), Conf(10)}

BaseRels == {Rel(id[1], id[2], id[3], c) : id \in Idents, c \in Confidences}

\* further candidates on pairs of their own, used to make one list long
FillNames == <<"f1", "f2", "f3", "f4", "f5">>
Filler(i) == Rel(FillNames[i], "g", "mentions", Conf(9))
Fillers(n) == [i \in 1..n |-> Filler(i)]

ListsUpTo(S, n) == UNION {[1..k -> S] : k \in 0..n}

\* which list is padded with MaxFill further candidates: neither, rules, ML
Pads == {<<0, 0>>, <<MaxFill, 0>>, <<0, MaxFill>>}

\* the names _ensemble_relations recognises, and one it does not
KnownMethods == {"union", "weighted_union", "intersection", "ml_priority", "confidence_threshold"}
Methods == KnownMethods \cup {"majority_vote"}

\* str.lower() on the strings in use
Lower(s) ==
    CASE s = "A" -> "a"
      [] s = "B" -> "b"
      [] s = "WORKS_FOR" -> "works_for"
      [] OTHER -> s

\* the key _deduplicate_relations hashes: the fields as they are
RelHash(rel) == <<rel.source, rel.target, rel.relationship>>

\* the key _intelligent_merge_relations groups by: the fields lower-cased
MergeKey(rel) == <<Lower(rel.source), Lower(rel.target), Lower(rel.relationship)>>

\* _relations_similar without its reverse match
RelationsSimilarForward(rel1, rel2) ==
    rel1.source = rel2.source /\ rel1.target = rel2.target

\* _relations_similar: same (source, target), or the two swapped
RelationsSimilar(rel1, rel2) ==
    \/ rel1.source = rel2.source /\ rel1.target = rel2.target
    \/ rel1.source = rel2.target /\ rel1.target = rel2.source

AnySimilar(rel, others) ==
    \E j \in 1..Len(others) : RelationsSimilar(rel, others[j])

\* _deduplicate_relations: the loop over relations with its seen set
RECURSIVE DedupFrom(_, _)
DedupFrom(relations, seen) ==
    IF relations = <<>> THEN <<>>
    ELSE IF RelHash(Head(relations)) \in seen
         THEN DedupFrom(Tail(relations), seen)
         ELSE <<Head(relations)>> \o
              DedupFrom(Tail(relations), seen \cup {RelHash(Head(relations))})

DeduplicateRelations(relations) == DedupFrom(relations, {})

\* _union_ensemble
UnionEnsemble(rules, ml) == DeduplicateRelations(rules \o ml)

\* ----------------------------------------------- _improved_weighted_union
\* x * 1.2 on a weight in hundredths
Times12(w) == (w * 12) \div 10

\* count / total_count >= 0.8
DominatesAtLeast(count, total_count) == count * 10 >= 8 * total_count

\* count / total_count > 0.8
Dominates(count, total_count) == count * 10 > 8 * total_count

\* the adaptive weights and what is logged while choosing them
AdaptiveWeights(rule_count, ml_count, rw, mw) ==
    IF rule_count > 0 /\ ml_count > 0
    THEN IF Dominates(rule_count, rule_count + ml_count)
         THEN [rule |-> rw, ml |-> Times12(mw), log |-> {"ml_boost"}]
         ELSE IF Dominates(ml_count, rule_count + ml_count)
              THEN [rule |-> Times12(rw), ml |-> mw, log |-> {"rules_boost"}]
              ELSE [rule |-> rw, ml |-> mw, log |-> {}]
    ELSE [rule |-> rw, ml |-> mw, log |-> {}]

\* the two weighting loops: each candidate object is rewritten in place
ApplyWeight(relations, w, src) ==
    [i \in 1..Len(relations) |->
        [relations[i] EXCEPT !.original_confidence = relations[i].confidence,
                             !.confidence = (relations[i].confidence * w) \div 100,
                             !.ensemble_source = src]]

\* the indices of the candidates that share the key of candidate i
GroupOf(all, i) == {j \in 1..Len(all) : MergeKey(all[j]) = MergeKey(all[i])}

\* relation_groups keeps its keys in the order of their first candidate
GroupLeaders(all) ==
    SelectSeq([i \in 1..Len(all) |-> i],
              LAMBDA i : \A j \in 1..(i - 1) : MergeKey(all[j]) # MergeKey(all[i]))

\* max(group, key=confidence): the first candidate of the highest confidence
BestOf(all, g) ==
    CHOOSE i \in g :
        /\ \A j \in g : all[j].confidence <= all[i].confidence
        /\ \A j \in g : all[j].confidence = all[i].confidence => i <= j

\* a group gets the boost when its candidates come from more than one source
Agreed(all, g) == Cardinality({all[j].ensemble_source : j \in g}) > 1

\* confidence * 1.3 without the cap
ConsensusBoostUncapped(c) == (c * 13) \div 10

\* min(1.0, confidence * boost_factor)
ConsensusBoost(c) == Min(One, (c * 13) \div 10)

\* the candidate objects after the merge loop: the best candidate of every
\* agreed group has been rewritten in place
AfterMerge(all) ==
    [i \in 1..Len(all) |->
        IF Agreed(all, GroupOf(all, i)) /\ BestOf(all, GroupOf(all, i)) = i
        THEN [all[i] EXCEPT !.confidence = ConsensusBoost(all[i].confidence),
                            !.ensemble_agreement = TRUE]
        ELSE all[i]]

\* _intelligent_merge_relations: one candidate per group
IntelligentMergeRelations(all) ==
    [k \in 1..Len(GroupLeaders(all)) |->
        AfterMerge(all)[BestOf(all, GroupOf(all, GroupLeaders(all)[k]))]]

\* r.get("confidence", 0) > min_threshold
FloorFilterStrict(merged) == SelectSeq(merged, LAMBDA r : r.confidence > MinThreshold)

\* the final selection: r.get("confidence", 0) >= min_threshold
FloorFilter(merged) == SelectSeq(merged, LAMBDA r : r.confidence >= MinThreshold)

\* _improved_weighted_union: what it returns, what it leaves in the two
\* lists it was given, its all_relations and merged lists, and what it logs
ImprovedWeightedUnion(rules, ml, rw, mw) ==
    LET w == AdaptiveWeights(Len(rules), Len(ml), rw, mw)
        all == ApplyWeight(rules, w.rule, "rules") \o ApplyWeight(ml, w.ml, "ml")
        merged == IntelligentMergeRelations(all)
    IN [result |-> FloorFilter(merged),
        rules |-> SubSeq(AfterMerge(all), 1, Len(rules)),
        ml |-> SubSeq(AfterMerge(all), Len(rules) + 1, Len(all)),
        all |-> all, merged |-> merged, w_rule |-> w.rule, w_ml |-> w.ml, log |-> w.log]

\* ------------------------------------------------- _intersection_ensemble
\* the inner loop stops at the first similar ML candidate
FirstSimilar(rel, others) ==
    others[CHOOSE j \in 1..Len(others) :
              /\ RelationsSimilar(rel, others[j])
              /\ \A i \in 1..(j - 1) : ~RelationsSimilar(rel, others[i])]

\* rule confidence * rule_weight + ML confidence * ml_weight
CombinedConfidence(rule_rel, ml_rel, rw, mw) ==
    (rule_rel.confidence * rw + ml_rel.confidence * mw) \div 100

\* a copy of every rule candidate that has a similar ML candidate
IntersectionEnsemble(rules, ml, rw, mw) ==
    LET kept == SelectSeq(rules, LAMBDA r : AnySimilar(r, ml))
    IN [k \in 1..Len(kept) |->
           [kept[k] EXCEPT !.confidence =
                               CombinedConfidence(kept[k], FirstSimilar(kept[k], ml), rw, mw),
                           !.ensemble_source = "both"]]

\* --------------------------------------------------- _ml_priority_ensemble
\* the rule candidate objects after the loop: those without a similar ML
\* candidate have been tagged in place
SupplementRules(rules, ml) ==
    [i \in 1..Len(rules) |->
        IF AnySimilar(rules[i], ml) THEN rules[i]
        ELSE [rules[i] EXCEPT !.ensemble_source = "rules_supplement"]]

\* every ML candidate, then the tagged rule candidates
MlPriorityEnsemble(rules, ml) ==
    ml \o SelectSeq(SupplementRules(rules, ml), LAMBDA r : ~AnySimilar(r, ml))

\* ------------------------------------------- _confidence_threshold_ensemble
\* confidence >= high_confidence_threshold
IsHigh(rel) == rel.confidence >= HighConfidenceThreshold

\* medium_confidence_threshold < confidence < high_confidence_threshold
IsMediumStrict(rel) ==
    MediumConfidenceThreshold < rel.confidence /\ rel.confidence < HighConfidenceThreshold

\* medium_confidence_threshold <= confidence < high_confidence_threshold
IsMedium(rel) ==
    MediumConfidenceThreshold <= rel.confidence /\ rel.confidence < HighConfidenceThreshold

\* ml_relations if rel in rule_relations else rule_relations: "in" compares
\* the candidates by value
OtherSource(rel, rules, ml) ==
    IF \E i \in 1..Len(rules) : rules[i] = rel THEN ml ELSE rules

ConfidenceThresholdEnsemble(rules, ml) ==
    DeduplicateRelations(
        SelectSeq(rules \o ml, IsHigh) \o
        SelectSeq(SelectSeq(rules \o ml, IsMedium),
                  LAMBDA r : AnySimilar(r, OtherSource(r, rules, ml))))

\* ----------------------------------------------------- _ensemble_relations
\* the branch taken for each ensemble_method; all is the weighted
\* concatenation and merged the list _intelligent_merge_relations built from
\* it, where the branch builds them
RunMethod(method, rules, ml, rw, mw) ==
    CASE method = "union" ->
           [result |-> UnionEnsemble(rules, ml), rules |-> rules, ml |-> ml,
            all |-> <<>>, merged |-> <<>>, w_rule |-> rw, w_ml |-> mw, log |-> {}]
      [] method = "weighted_union" -> ImprovedWeightedUnion(rules, ml, rw, mw)
      [] method = "intersection" ->
           [result |-> IntersectionEnsemble(rules, ml, rw, mw), rules |-> rules, ml |-> ml,
            all |-> <<>>, merged |-> <<>>, w_rule |-> rw, w_ml |-> mw, log |-> {}]
      [] method = "ml_priority" ->
           [result |-> MlPriorityEnsemble(rules, ml), rules |-> SupplementRules(rules, ml),
            ml |-> ml, all |-> <<>>, merged |-> <<>>, w_rule |-> rw, w_ml |-> mw, log |-> {}]
      [] method = "confidence_threshold" ->
           [result |-> ConfidenceThresholdEnsemble(rules, ml), rules |-> rules, ml |-> ml,
            all |-> <<>>, merged |-> <<>>, w_rule |-> rw, w_ml |-> mw, log |-> {}]

\* the warning with the test loss_ratio >= 0.5
LossWarningAtLeast(rule_count, ml_count, out_count) ==
    IF /\ rule_count + ml_count > 0
       /\ out_count < Max(rule_count, ml_count)
       /\ 2 * (rule_count + ml_count - out_count) >= rule_count + ml_count
    THEN {"loss_warning"} ELSE {}

\* the warning about a poor ensemble result
LossWarning(rule_count, ml_count, out_count) ==
    IF /\ rule_count + ml_count > 0
       /\ out_count < Max(rule_count, ml_count)
       /\ 2 * (rule_count + ml_count - out_count) > rule_count + ml_count
    THEN {"loss_warning"} ELSE {}

\* the if/elif chain with an else branch that takes the union branch
EnsembleRelationsUnionFallback(method, rules, ml, rw, mw) ==
    LET out == IF method \in KnownMethods
               THEN RunMethod(method, rules, ml, rw, mw)
               ELSE [RunMethod("union", rules, ml, rw, mw) EXCEPT !.log = {"unknown_method"}]
    IN [out EXCEPT !.log = @ \cup LossWarning(Len(rules), Len(ml), Len(out.result))]

\* _ensemble_relations: the if/elif chain, whose else branch warns about the
\* unknown method and takes the weighted_union branch; then the loss warning
EnsembleRelations(method, rules, ml, rw, mw) ==
    LET out == IF method \in KnownMethods
               THEN RunMethod(method, rules, ml, rw, mw)
               ELSE [RunMethod("weighted_union", rules, ml, rw, mw)
                        EXCEPT !.log = @ \cup {"unknown_method"}]
    IN [out EXCEPT !.log = @ \cup LossWarning(Len(rules), Len(ml), Len(out.result))]

\* every confidence of the list is a whole number of thousandths of One, so
\* that weighting and boosting it once more stays exact
Exact(relations) == \A i \in 1..Len(relations) : relations[i].confidence % 1000 = 0

NoFusion == [rules |-> <<>>, ml |-> <<>>, all |-> <<>>, merged |-> <<>>, w_rule |-> 0, w_ml |-> 0]

\* the extractor of the other specifications: constructed, never called
FusionIdle ==
    /\ ensemble_method = "weighted_union"
    /\ rule_weight = DefaultRuleWeight
    /\ ml_weight = DefaultMlWeight
    /\ rule_relations = <<>>
    /\ ml_relations = <<>>
    /\ result = <<>>
    /\ flog = {}
    /\ fcalls = 0
    /\ flast = NoFusion
    /\ first = <<>>

\* an extractor constructed with some ensemble_method and the default
\* weights, and the two candidate lists its caller holds
FusionInit ==
    /\ ensemble_method \in Methods
    /\ rule_weight = DefaultRuleWeight
    /\ ml_weight = DefaultMlWeight
    /\ \E pad \in Pads :
          /\ \E base \in ListsUpTo(BaseRels, MaxRules) : rule_relations = base \o Fillers(pad[1])
          /\ \E base \in ListsUpTo(BaseRels, MaxMl) : ml_relations = base \o Fillers(pad[2])
    /\ result = <<>>
    /\ flog = {}
    /\ fcalls = 0
    /\ flast = NoFusion
    /\ first = <<>>

\* the (rule_weight, ml_weight) configurations besides the default: both
\* settings are read from the config as they are, here the ends of [0, 1]
WeightPairs ==
    {<<DefaultRuleWeight, DefaultMlWeight>>, <<0, 100>>, <<100, 0>>, <<100, 100>>}

\* an extractor constructed with some ensemble_method and some weights, and
\* the two candidate lists its caller holds
WeightInit ==
    /\ ensemble_method \in Methods
    /\ \E w \in WeightPairs : rule_weight = w[1] /\ ml_weight = w[2]
    /\ \E pad \in Pads :
          /\ \E base \in ListsUpTo(BaseRels, MaxMl) : rule_relations = base \o Fillers(pad[1])
          /\ \E base \in ListsUpTo(BaseRels, MaxMl) : ml_relations = base \o Fillers(pad[2])
    /\ result = <<>>
    /\ flog = {}
    /\ fcalls = 0
    /\ flast = NoFusion
    /\ first = <<>>

\* one call of _ensemble_relations on the two lists
Ensemble ==
    /\ fcalls < MaxFuseCalls
    /\ Exact(rule_relations) /\ Exact(ml_relations)
    /\ LET out == EnsembleRelations(ensemble_method, rule_relations, ml_relations,
                                    rule_weight, ml_weight)
       IN /\ rule_relations' = out.rules
          /\ ml_relations' = out.ml
          /\ result' = out.result
          /\ flog' = out.log
          /\ flast' = [rules |-> rule_relations, ml |-> ml_relations, all |-> out.all,
                       merged |-> out.merged, w_rule |-> out.w_rule, w_ml |-> out.w_ml]
          /\ first' = IF fcalls = 0 THEN out.result ELSE first
    /\ fcalls' = fcalls + 1
    /\ UNCHANGED <<ensemble_method, rule_weight, ml_weight>>

\* ---------------------------------------------- _split_text_into_chunks
\* A text is the sequence of its characters.
Chars == {"a", ".", " "}

Texts == UNION {[1..n -> Chars] : n \in 0..MaxTextLen}

\* str.split(". "): piece is the part collected since the last separator
RECURSIVE SplitSentences(_, _)
SplitSentences(s, piece) ==
    IF s = <<>> THEN <<piece>>
    ELSE IF Len(s) >= 2 /\ SubSeq(s, 1, 2) = <<".", " ">>
         THEN <<piece>> \o SplitSentences(SubSeq(s, 3, Len(s)), <<>>)
         ELSE SplitSentences(Tail(s), Append(piece, Head(s)))

\* str.strip(): from the first to the last character that is no blank
Strip(s) ==
    LET solid == {i \in 1..Len(s) : s[i] # " "}
    IN IF solid = {} THEN <<>>
       ELSE SubSeq(s, CHOOSE i \in solid : \A j \in solid : i <= j,
                      CHOOSE i \in solid : \A j \in solid : j <= i)

\* the loop with an else branch that flushes and starts the next chunk empty
RECURSIVE ChunkLoopDropping(_, _, _)
ChunkLoopDropping(sentences, current_chunk, max) ==
    LET flushed == IF current_chunk # <<>> THEN <<Strip(current_chunk)>> ELSE <<>>
    IN IF sentences = <<>> THEN flushed
       ELSE IF Len(current_chunk) + Len(Head(sentences)) <= max
            THEN ChunkLoopDropping(Tail(sentences),
                                   current_chunk \o Head(sentences) \o <<".", " ">>, max)
            ELSE flushed \o ChunkLoopDropping(Tail(sentences), <<>>, max)

\* the loop over the sentences and the final flush: the chunks appended from
\* here on, each flushed as current_chunk.strip() if current_chunk is not empty
RECURSIVE ChunkLoop(_, _, _)
ChunkLoop(sentences, current_chunk, max) ==
    LET flushed == IF current_chunk # <<>> THEN <<Strip(current_chunk)>> ELSE <<>>
    IN IF sentences = <<>> THEN flushed
       ELSE IF Len(current_chunk) + Len(Head(sentences)) <= max
            THEN ChunkLoop(Tail(sentences), current_chunk \o Head(sentences) \o <<".", " ">>,
                           max)
            ELSE flushed \o ChunkLoop(Tail(sentences), Head(sentences) \o <<".", " ">>, max)

\* AsyncAutoGraphPipeline._split_text_into_chunks
SplitTextIntoChunks(t, max) ==
    IF Len(t) <= max THEN <<t>>
    ELSE ChunkLoop(SplitSentences(t, <<>>), <<>>, max)

\* no text has been split
ChunkIdle ==
    /\ text = <<>>
    /\ max_chunk_size = 1
    /\ chunks = <<>>
    /\ chunked = FALSE

\* a text and a max_chunk_size, before the call
ChunkInit ==
    /\ text \in Texts
    /\ max_chunk_size \in 1..MaxChunkSize
    /\ chunks = <<>>
    /\ chunked = FALSE

\* chunks = self._split_text_into_chunks(text, max_chunk_size)
SplitText ==
    /\ ~chunked
    /\ chunks' = SplitTextIntoChunks(text, max_chunk_size)
    /\ chunked' = TRUE
    /\ UNCHANGED <<text, max_chunk_size>>

\* ------------------------------------------- AutoGraphCacheManager keys
\* A string is the sequence of its pieces: a letter, a colon, or a word the
\* code writes into its key (each word stands for its characters).
KeyContents == {<<"x">>, <<"x", ":", "relations", ":">>, <<"x", ":", "ner", ":">>}

\* the model_name or domain a key is asked for
Discriminators == {<<"y">>, <<":", "relations", ":", "y">>, <<":", "ner", ":", "y">>}

\* hashlib.md5(content.encode('utf-8')).hexdigest(), taken as free of
\* collisions: the digest stands for the string it was computed from
Md5(content) == <<"md5", content>>

\* the string _generate_cache_key hashes: f"{text}:{context}"
KeyString(t, context) == t \o <<":">> \o context

\* AutoGraphCacheManager._generate_cache_key
GenerateCacheKey(t, context) == Md5(KeyString(t, context))

\* the context of the tagging cache, f"ner:{model_name}", and of the relation
\* cache, f"relations:{domain}"
KeyContext(kind, discriminator) ==
    IF kind = "ner" THEN <<"ner", ":">> \o discriminator
    ELSE <<"relations", ":">> \o discriminator

KeyIdle == key_log = <<>>

\* cache_ner_results / get_cached_ner_results (kind "ner") and
\* cache_relation_results / get_cached_relation_results (kind "relations")
\* compute the key of (content, discriminator)
MakeKey(kind, content, discriminator) ==
    /\ Len(key_log) < MaxKeyCalls
    /\ key_log' = Append(key_log,
                         [kind |-> kind, content |-> content, discriminator |-> discriminator,
                          hashed |-> KeyString(content, KeyContext(kind, discriminator)),
                          key |-> GenerateCacheKey(content, KeyContext(kind, discriminator))])

\* ------------------------------------ aggregation of the chunk results
\* the entity and relationship records the processors hand back
EntityRecords ==
    {[text |-> "A", label |-> "PER", start |-> 0],
     [text |-> "a", label |-> "PER", start |-> 7],
     [text |-> "A", label |-> "ORG", start |-> 0]}

RelationshipRecords ==
    {[source |-> "A", target |-> "B", type |-> "works_for"],
     [source |-> "a", target |-> "b", type |-> "works_for"],
     [source |-> "A", target |-> "B", type |-> "WORKS_FOR"]}

\* what one _process_text_chunk call returned
ChunkResults ==
    {[entities |-> e, relationships |-> r] :
        e \in ListsUpTo(EntityRecords, MaxChunkEntities),
        r \in ListsUpTo(RelationshipRecords, MaxChunkRelations)}

\* a key made of the position of the entity in its chunk
EntityKeyByPosition(entity) == <<entity.start, entity.label>>

\* key = (entity.get("text", "").lower(), entity.get("label", ""))
EntityKey(entity) == <<Lower(entity.text), entity.label>>

\* key = (rel source .lower(), rel target .lower(), rel.get("type", ""))
RelationshipKey(rel) == <<Lower(rel.source), Lower(rel.target), rel.type>>

\* a seen set that forgets a key when it meets the key again
UniqueByKeyForgetful(items, keys) ==
    LET kept == SelectSeq([i \in 1..Len(items) |-> i],
                          LAMBDA i : Cardinality({j \in 1..(i - 1) : keys[j] = keys[i]}) % 2 = 0)
    IN [n \in 1..Len(kept) |-> items[kept[n]]]

\* the loop "if key not in seen: seen.add(key); unique.append(item)": the
\* items whose key no earlier item has; keys[i] is the key of items[i]
UniqueByKey(items, keys) ==
    LET kept == SelectSeq([i \in 1..Len(items) |-> i],
                          LAMBDA i : \A j \in 1..(i - 1) : keys[j] # keys[i])
    IN [n \in 1..Len(kept) |-> items[kept[n]]]

\* AsyncAutoGraphPipeline._deduplicate_entities
DeduplicateEntities(entities) ==
    UniqueByKey(entities, [i \in 1..Len(entities) |-> EntityKey(entities[i])])

\* AsyncAutoGraphPipeline._deduplicate_relationships
DeduplicateRelationships(relationships) ==
    UniqueByKey(relationships,
                [i \in 1..Len(relationships) |-> RelationshipKey(relationships[i])])

\* all_entities / all_relationships: the chunk results joined in list order
RECURSIVE ExtendAll(_)
ExtendAll(results) ==
    IF results = <<>> THEN [entities |-> <<>>, relationships |-> <<>>]
    ELSE [entities |-> Head(results).entities \o ExtendAll(Tail(results)).entities,
          relationships |->
              Head(results).relationships \o ExtendAll(Tail(results)).relationships]

\* run_single steps 2 and 3 on the gathered chunk results: unique_entities
\* and unique_relationships
AggregateChunkResults(results) ==
    [entities |-> DeduplicateEntities(ExtendAll(results).entities),
     relationships |-> DeduplicateRelationships(ExtendAll(results).relationships)]

\* no aggregation made yet
NoAggregate == [entities |-> <<>>, relationships |-> <<>>, made |-> FALSE]

DedupIdle ==
    /\ chunk_results = <<>>
    /\ aggregated = NoAggregate
    /\ previous = NoAggregate
    /\ again = NoAggregate
    /\ acalls = 0

\* the results of one or more chunks, before they are aggregated
DedupInit ==
    /\ chunk_results \in UNION {[1..n -> ChunkResults] : n \in 1..MaxResultChunks}
    /\ aggregated = NoAggregate
    /\ previous = NoAggregate
    /\ again = NoAggregate
    /\ acalls = 0

\* the aggregation step runs on the chunk-result list
AggregateResults ==
    /\ acalls < MaxAggCalls
    /\ aggregated' = AggregateChunkResults(chunk_results)
    /\ previous' = aggregated
    /\ again' = NoAggregate
    /\ acalls' = acalls + 1
    /\ UNCHANGED chunk_results

\* the two deduplications run on their own output
DedupAgain ==
    /\ acalls >= 1
    /\ again = NoAggregate
    /\ again' = [entities |-> DeduplicateEntities(aggregated.entities),
                 relationships |-> DeduplicateRelationships(aggregated.relationships)]
    /\ UNCHANGED <<chunk_results, aggregated, previous, acalls>>

\* ------------------------------------------- chunk tasks of the pipeline
\* self.processors, by class name
Processors == <<"NERProcessor", "RelationExtractor">>

\* what the extractors in use return for the sources in use
RunTexts ==
    {<<>>, <<"a">>, <<"a", ".", " ", "a">>, <<"a", ".", " ", "a", "a">>}

\* the processors are deterministic functions of the chunk they are given:
\* the value under "entities" resp. "relationships" of the dict they return
ProcessorOutput(name, chunk) ==
    IF name = "NERProcessor"
    THEN IF \A i \in 1..Len(chunk) : chunk[i] # "a" THEN <<>>
         ELSE IF Len(chunk) <= 2 THEN <<[text |-> "A", label |-> "PER", start |-> 0]>>
         ELSE <<[text |-> "B", label |-> "PER", start |-> 0],
                [text |-> "a", label |-> "PER", start |-> 1]>>
    ELSE IF \A i \in 1..Len(chunk) : chunk[i] # "." THEN <<>>
         ELSE IF Len(chunk) <= 2
              THEN <<[source |-> "A", target |-> "B", type |-> "works_for"]>>
              ELSE <<[source |-> "a", target |-> "b", type |-> "works_for"]>>

\* a cache of the manager, as the entries it holds: key -> value
\* LRUCache.get on it: None on a miss
Miss == [hit |-> FALSE, value |-> <<>>]
Lookup(c, k) == IF k \in DOMAIN c THEN [hit |-> TRUE, value |-> c[k]] ELSE Miss

\* LRUCache.set on it
StoreValue(c, k, v) == [x \in (DOMAIN c) \cup {k} |-> IF x = k THEN v ELSE c[x]]

\* Python truthiness of what a cache read returned: None, "" and [] are falsy
Truthy(cached) == cached.hit /\ cached.value # <<>>

\* cache_key = f"text:{source_path}:{stat.st_mtime}" of the one source
TextKey == <<"text", ":", "source", ":", "mtime">>

\* the keys of get_cached_ner_results(text_chunk) and
\* get_cached_relation_results(text_chunk, domain or "") with domain None
NerKey(chunk) == GenerateCacheKey(chunk, KeyContext("ner", <<>>))
RelKey(chunk) == GenerateCacheKey(chunk, KeyContext("relations", <<>>))

\* a _process_text_chunk coroutine that has not started
NewTask(chunk, use) ==
    [chunk |-> chunk, use_cache |-> use, ner_cached |-> Miss, relations_cached |-> Miss,
     at |-> 1, entities |-> <<>>, relationships |-> <<>>, pc |-> "new", cause |-> "none"]

\* the loop "for processor in self.processors" from processor t.at on, up to
\* the next processor that has to be invoked or to the return
RECURSIVE ProcessorLoop(_)
ProcessorLoop(t) ==
    IF t.at > Len(Processors) THEN [t EXCEPT !.pc = "done"]
    ELSE IF Processors[t.at] = "NERProcessor" /\ Truthy(t.ner_cached)
         THEN ProcessorLoop([t EXCEPT !.entities = t.ner_cached.value, !.at = @ + 1])
    ELSE IF Processors[t.at] = "RelationExtractor" /\ Truthy(t.relations_cached)
         THEN ProcessorLoop([t EXCEPT !.relationships = t.relations_cached.value,
                                      !.at = @ + 1])
    ELSE [t EXCEPT !.pc = "invoke"]

\* the processor invocation a task stands at, and the task number once it ended
Invocations(t, i) ==
    IF t.pc = "invoke" THEN {[run |-> run, who |-> Processors[t.at], chunk |-> i]} ELSE {}
Completed(t, i) == IF t.pc \in {"done", "failed"} THEN <<i>> ELSE <<>>

\* _process_text_chunk starts: the two cache reads (if use_cache), then the
\* processor loop up to its first invocation; tasks start in list order
TaskBegin(i) ==
    /\ i \in 1..Len(tasks)
    /\ tasks[i].pc = "new"
    /\ \A j \in 1..(i - 1) : tasks[j].pc # "new"
    /\ LET t == tasks[i]
           read == IF t.use_cache
                   THEN [t EXCEPT !.ner_cached = Lookup(ner_cache, NerKey(t.chunk)),
                                  !.relations_cached =
                                      Lookup(relation_cache, RelKey(t.chunk))]
                   ELSE t
           next == ProcessorLoop(read)
       IN /\ tasks' = [tasks EXCEPT ![i] = next]
          /\ invoked' = invoked \cup Invocations(next, i)
          /\ ended' = ended \o Completed(next, i)
    /\ UNCHANGED <<use_cache, zero_cache, text_cache, ner_cache, relation_cache, run, phase,
                   outcomes, chunk_size, spos, chunk_number, yielded, slog,
                   text, chunks, chunk_results, aggregated>>

\* the invoked processor raises, or returns and the task goes on: the cache
\* write and the assignment of entities / relationships (both only if
\* use_cache), then the loop up to the next invocation
TaskResume(i, outcome) ==
    /\ i \in 1..Len(tasks)
    /\ tasks[i].pc = "invoke"
    /\ LET t == tasks[i]
           name == Processors[t.at]
           out == ProcessorOutput(name, t.chunk)
           full == zero_cache = (IF name = "NERProcessor" THEN "ner" ELSE "relations")
           kept == IF name = "NERProcessor"
                   THEN [t EXCEPT !.entities = out, !.at = @ + 1]
                   ELSE [t EXCEPT !.relationships = out, !.at = @ + 1]
           next == IF outcome = "raise" THEN [t EXCEPT !.pc = "failed", !.cause = "processor"]
                   ELSE IF ~t.use_cache THEN ProcessorLoop([t EXCEPT !.at = @ + 1])
                   ELSE IF full THEN [t EXCEPT !.pc = "failed", !.cause = "cache"]
                   ELSE ProcessorLoop(kept)
           written == outcome = "return" /\ t.use_cache /\ ~full
       IN /\ tasks' = [tasks EXCEPT ![i] = next]
          /\ ner_cache' = IF written /\ name = "NERProcessor"
                          THEN StoreValue(ner_cache, NerKey(t.chunk), out) ELSE ner_cache
          /\ relation_cache' = IF written /\ name = "RelationExtractor"
                               THEN StoreValue(relation_cache, RelKey(t.chunk), out)
                               ELSE relation_cache
          /\ invoked' = invoked \cup Invocations(next, i)
          /\ ended' = ended \o Completed(next, i)
    /\ UNCHANGED <<use_cache, zero_cache, text_cache, run, phase, outcomes,
                   chunk_size, spos, chunk_number, yielded, slog,
                   text, chunks, chunk_results, aggregated>>

\* ------------------------------------------------------------ run_single
\* text_chunks and the coroutines handed to asyncio.gather
ChunkTasks(extracted_text, use) ==
    LET text_chunks == SplitTextIntoChunks(extracted_text, max_chunk_size)
    IN [i \in 1..Len(text_chunks) |-> NewTask(text_chunks[i], use)]

NoOutcome == [status |-> "ok", cause |-> "none", entities |-> <<>>, relationships |-> <<>>]

\* run_single is called (once the tasks of an earlier run have ended): the
\* text cache read; a truthy cached text goes to the chunks, anything else
\* to the extractor
RunStart ==
    /\ phase = "idle"
    /\ run < MaxRuns
    /\ \A i \in 1..Len(tasks) : tasks[i].pc \in {"done", "failed"}
    /\ run' = run + 1
    /\ ended' = <<>>
    /\ LET cached == IF use_cache THEN Lookup(text_cache, TextKey) ELSE Miss
       IN IF Truthy(cached)
          THEN /\ phase' = "gather"
               /\ tasks' = ChunkTasks(cached.value, use_cache)
               /\ chunks' = SplitTextIntoChunks(cached.value, max_chunk_size)
               /\ UNCHANGED invoked
          ELSE /\ phase' = "extract"
               /\ tasks' = <<>>
               /\ chunks' = <<>>
               /\ invoked' = invoked \cup {[run |-> run + 1, who |-> "extractor", chunk |-> 0]}
    /\ UNCHANGED <<use_cache, zero_cache, text_cache, ner_cache, relation_cache, outcomes,
                   chunk_size, spos, chunk_number, yielded, slog,
                   text, chunk_results, aggregated>>

\* extractor.extract raises, or returns the text: cache_extracted_text (if
\* use_cache; a failing write is caught there), the split and the gather
RunExtract(outcome) ==
    /\ phase = "extract"
    /\ IF outcome = "raise"
       THEN /\ phase' = "idle"
            /\ outcomes' = Append(outcomes, [NoOutcome EXCEPT !.status = "failed",
                                                              !.cause = "extractor"])
            /\ UNCHANGED <<text_cache, tasks, chunks>>
       ELSE /\ phase' = "gather"
            /\ text_cache' = IF use_cache /\ zero_cache # "text"
                             THEN StoreValue(text_cache, TextKey, text) ELSE text_cache
            /\ tasks' = ChunkTasks(text, use_cache)
            /\ chunks' = SplitTextIntoChunks(text, max_chunk_size)
            /\ UNCHANGED outcomes
    /\ UNCHANGED <<use_cache, zero_cache, ner_cache, relation_cache, ended, run, invoked,
                   chunk_size, spos, chunk_number, yielded, slog,
                   text, chunk_results, aggregated>>

\* asyncio.gather ends: with the exception of the first task that failed (the
\* other tasks go on), or, all tasks done, with their results in list order,
\* which are joined and deduplicated
RunGather ==
    /\ phase = "gather"
    /\ IF \E i \in 1..Len(tasks) : tasks[i].pc = "failed"
       THEN LET firstFailed == ended[CHOOSE n \in 1..Len(ended) :
                                   /\ tasks[ended[n]].pc = "failed"
                                   /\ \A m \in 1..(n - 1) : tasks[ended[m]].pc # "failed"]
            IN /\ phase' = "idle"
               /\ outcomes' = Append(outcomes, [NoOutcome EXCEPT
                                                   !.status = "failed",
                                                   !.cause = tasks[firstFailed].cause])
               /\ UNCHANGED <<chunk_results, aggregated>>
       ELSE /\ \A i \in 1..Len(tasks) : tasks[i].pc = "done"
            /\ phase' = "store"
            /\ chunk_results' = [i \in 1..Len(tasks) |->
                                    [entities |-> tasks[i].entities,
                                     relationships |-> tasks[i].relationships]]
            /\ aggregated' = AggregateChunkResults(chunk_results')
            /\ UNCHANGED outcomes
    /\ UNCHANGED <<use_cache, zero_cache, text_cache, ner_cache, relation_cache, tasks, ended,
                   run, invoked, chunk_size, spos, chunk_number, yielded, slog,
                   text, chunks>>

\* _store_results_async raises, or returns and run_single returns its
\* PipelineResult
RunStore(outcome) ==
    /\ phase = "store"
    /\ phase' = "idle"
    /\ outcomes' = Append(outcomes,
                          IF outcome = "raise"
                          THEN [NoOutcome EXCEPT !.status = "failed", !.cause = "storage"]
                          ELSE [NoOutcome EXCEPT !.entities = aggregated.entities,
                                                 !.relationships = aggregated.relationships])
    /\ UNCHANGED <<use_cache, zero_cache, text_cache, ner_cache, relation_cache, tasks, ended,
                   run, invoked, chunk_size, spos, chunk_number, yielded, slog,
                   text, chunks, chunk_results, aggregated>>

\* ---------------------------------------------------------- run_streaming
\* chunk = await file.read(chunk_size) raises, returns "" (the loop ends) or
\* returns the next chunk, whose _process_text_chunk(use_cache=False) starts
StreamRead(outcome) ==
    /\ phase = "reading"
    /\ LET chunk == SubSeq(text, spos + 1, Min(spos + chunk_size, Len(text)))
           task == ProcessorLoop(NewTask(chunk, FALSE))
       IN IF outcome = "raise"
          THEN /\ phase' = "raised"
               /\ UNCHANGED <<tasks, ended, invoked, spos, chunk_number>>
          ELSE IF chunk = <<>>
          THEN /\ phase' = "closed"
               /\ UNCHANGED <<tasks, ended, invoked, spos, chunk_number>>
          ELSE /\ phase' = "processing"
               /\ spos' = spos + Len(chunk)
               /\ chunk_number' = chunk_number + 1
               /\ tasks' = <<task>>
               /\ ended' = Completed(task, 1)
               /\ invoked' = invoked \cup Invocations(task, 1)
    /\ UNCHANGED <<use_cache, zero_cache, text_cache, ner_cache, relation_cache, run, outcomes,
                   chunk_size, yielded, slog, text, chunks, chunk_results, aggregated>>

\* the except branch that ends the stream instead of going on
StreamSkipEndsStream ==
    /\ phase = "processing"
    /\ tasks[1].pc = "failed"
    /\ slog' = Append(slog, chunk_number)
    /\ phase' = "closed"
    /\ UNCHANGED <<use_cache, zero_cache, text_cache, ner_cache, relation_cache, tasks, ended,
                   run, invoked, outcomes, chunk_size, spos, chunk_number, yielded,
                   text, chunks, chunk_results, aggregated>>

\* _process_text_chunk raised: except Exception: logger.error(...); continue
StreamSkip ==
    /\ phase = "processing"
    /\ tasks[1].pc = "failed"
    /\ slog' = Append(slog, chunk_number)
    /\ phase' = "reading"
    /\ UNCHANGED <<use_cache, zero_cache, text_cache, ner_cache, relation_cache, tasks, ended,
                   run, invoked, outcomes, chunk_size, spos, chunk_number, yielded,
                   text, chunks, chunk_results, aggregated>>

\* _process_text_chunk returned: yield PipelineResult(...)
StreamYield ==
    /\ phase = "processing"
    /\ tasks[1].pc = "done"
    /\ yielded' = Append(yielded, [chunk_number |-> chunk_number,
                                   chunk_size |-> Len(tasks[1].chunk),
                                   entities |-> tasks[1].entities,
                                   relationships |-> tasks[1].relationships])
    /\ phase' = "suspended"
    /\ UNCHANGED <<use_cache, zero_cache, text_cache, ner_cache, relation_cache, tasks, ended,
                   run, invoked, outcomes, chunk_size, spos, chunk_number, slog,
                   text, chunks, chunk_results, aggregated>>

\* the consumer asks for the next result
StreamResume ==
    /\ phase = "suspended"
    /\ phase' = "reading"
    /\ UNCHANGED <<use_cache, zero_cache, text_cache, ner_cache, relation_cache, tasks, ended,
                   run, invoked, outcomes, chunk_size, spos, chunk_number, yielded, slog,
                   text, chunks, chunk_results, aggregated>>

\* no run_single and no run_streaming under way
RunIdle ==
    /\ use_cache = TRUE
    /\ zero_cache = "none"
    /\ text_cache = <<>>
    /\ ner_cache = <<>>
    /\ relation_cache = <<>>
    /\ tasks = <<>>
    /\ ended = <<>>
    /\ run = 0
    /\ phase = "idle"
    /\ invoked = {}
    /\ outcomes = <<>>
    /\ chunk_size = 1
    /\ spos = 0
    /\ chunk_number = 0
    /\ yielded = <<>>
    /\ slog = <<>>

\* ------------------------------ processors, worker pool and decorator
\* a configured processor: its class name, the form it offers (process_async,
\* or process only), the cache_type of the cache_async_method decorator on its
\* process_async, and the field its result is about
NerAsync ==
    [name |-> "NERProcessor", form |-> "process_async", cache_type |-> "ner",
     adds |-> "entities"]
RelAsync ==
    [name |-> "RelationExtractor", form |-> "process_async", cache_type |-> "relations",
     adds |-> "relationships"]
HybridAsync ==
    [name |-> "HybridRelationExtractor", form |-> "process_async",
     cache_type |-> "hybrid_relations", adds |-> "relationships"]
\* a BaseProcessor of the caller without process_async, whose process takes
\* (data, domain) and returns {**data, "links": ...}
PostProcessor ==
    [name |-> "PostProcessor", form |-> "process", cache_type |-> "none", adds |-> "links"]

\* the processor lists a pipeline is constructed with
ProcessorLists ==
    {<<NerAsync, RelAsync>>, <<NerAsync, HybridAsync>>, <<NerAsync, RelAsync, PostProcessor>>}

\* the data handed from processor to processor: the chunk itself (a str), or a
\* dict with the given keys, the chunk under "text" if it has that key
StrData(chunk) == [form |-> "str", text |-> chunk, fields |-> {}]
DictData(chunk, fields) == [form |-> "dict", text |-> chunk, fields |-> fields]

\* current_data["entities"], current_data["relationships"]: the list under
\* one field (the processors in use find something in every chunk)
FieldOf(data, field) == [form |-> "list", text |-> data.text, fields |-> {field}]
NoList == [form |-> "list", text |-> <<>>, fields |-> {}]

\* the dict processor p returns for the data it is given
ProcessorResult(p, data) ==
    IF p.name = "NERProcessor"
    THEN DictData(data.text, {"text", "entities", "source", "processor"})
    ELSE IF p.name = "RelationExtractor"
    THEN DictData(data.text, {"text", "entities", "relationships", "processor", "domain"})
    ELSE IF p.name = "HybridRelationExtractor"
    THEN DictData(<<>>, {"relationships", "metadata"})
    ELSE DictData(data.text, data.fields \cup {"text", p.adds})

\* str(args) of the call process_async(current_data, domain=domain)
Repr(data) ==
    <<data.form>>
        \o SelectSeq(<<"text", "entities", "relationships", "links", "source", "processor",
                       "domain", "metadata">>, LAMBDA f : f \in data.fields)
        \o data.text

\* cache_async_method: md5(f"{func.__name__}:{str(args)}:{str(kwargs)}")
DecoratorKey(data) == Md5(<<"process_async", ":">> \o Repr(data) \o <<":", "domain">>)

\* cache_async_method: the cache its if/elif/else picks for a cache_type
DecoratorCache(cache_type) ==
    IF cache_type = "ner" THEN "ner"
    ELSE IF cache_type = "relations" THEN "relations"
    ELSE "text"

\* the category of what a processor returns: a tagging or a relation result
CategoryOf(p) == IF p.adds = "entities" THEN "ner" ELSE "relations"

\* the wrapper is in effect: the method is decorated and the pipeline has set
\* processor.cache_manager
Decorated(p) == p.cache_type # "none"

\* a coroutine at work: its task, the three caches, what the processors of
\* its chunk have received, and the cache writes made
CacheOf(c, which) ==
    IF which = "ner" THEN c.ner ELSE IF which = "relations" THEN c.rel ELSE c.txt

\* LRUCache.set on one of the three caches, by the orchestrator or the decorator
Stored(c, which, k, v, category, by) ==
    LET logged == [c EXCEPT !.writes = @ \cup {[cache |-> which, category |-> category,
                                                by |-> by]}]
    IN IF which = "ner" THEN [logged EXCEPT !.ner = StoreValue(@, k, v)]
       ELSE IF which = "relations" THEN [logged EXCEPT !.rel = StoreValue(@, k, v)]
       ELSE [logged EXCEPT !.txt = StoreValue(@, k, v)]

\* a _process_text_chunk coroutine that has not started
NewChunkTask(chunk, use) ==
    [chunk |-> chunk, use_cache |-> use, ner_cached |-> Miss, relations_cached |-> Miss,
     at |-> 1, current_data |-> StrData(chunk), entities |-> NoList,
     relationships |-> NoList, pc |-> "new"]

RECURSIVE Walk(_)
\* the "Cache-Updates" after the processor at c.t.at handed back returned (the
\* write and the assignment only if use_cache), then the loop goes on
AfterProcessor(c, returned) ==
    LET p == processors[c.t.at]
        upd == IF p.name = "NERProcessor" /\ c.t.use_cache /\ "entities" \in returned.fields
               THEN [Stored(c, "ner", NerKey(c.t.chunk), FieldOf(returned, "entities"),
                            "ner", "orchestrator")
                        EXCEPT !.t.entities = FieldOf(returned, "entities")]
               ELSE IF /\ p.name = "RelationExtractor" /\ c.t.use_cache
                       /\ "relationships" \in returned.fields
               THEN [Stored(c, "relations", RelKey(c.t.chunk),
                            FieldOf(returned, "relationships"), "relations", "orchestrator")
                        EXCEPT !.t.relationships = FieldOf(returned, "relationships")]
               ELSE c
    IN Walk([upd EXCEPT !.t.current_data = returned, !.t.at = @ + 1])

\* the processor loop of _process_text_chunk from processor c.t.at on, up
\* to the next suspension or the return: a hit in the orchestrator's caches
\* skips the processor; a processor with process_async is called through it,
\* where the decorator first reads its cache and hands back a hit at once;
\* any other processor's process is submitted to self.executor
Walk(c) ==
    IF c.t.at > Len(processors) THEN [c EXCEPT !.t.pc = "done"]
    ELSE LET p == processors[c.t.at]
             call == [c EXCEPT !.received =
                                   Append(@, [at |-> c.t.at, who |-> p.name,
                                              data |-> c.t.current_data])]
             cached == Lookup(CacheOf(c, DecoratorCache(p.cache_type)),
                              DecoratorKey(c.t.current_data))
         IN IF p.name = "NERProcessor" /\ c.t.ner_cached.hit
            THEN Walk([c EXCEPT !.t.entities = c.t.ner_cached.value,
                                !.t.current_data = DictData(c.t.chunk, {"text", "entities"}),
                                !.t.at = @ + 1])
            ELSE IF p.name = "RelationExtractor" /\ c.t.relations_cached.hit
            THEN Walk([c EXCEPT !.t.relationships = c.t.relations_cached.value,
                                !.t.at = @ + 1])
            ELSE IF p.form = "process_async"
            THEN IF Decorated(p) /\ cached.hit THEN AfterProcessor(call, cached.value)
                 ELSE [call EXCEPT !.t.pc = "async"]
            ELSE [call EXCEPT !.t.pc = "queued"]

\* coroutine i with the state it runs on, and that state put back
Context(i) ==
    [t |-> tasks[i], txt |-> text_cache, ner |-> ner_cache, rel |-> relation_cache,
     received |-> received[i], writes |-> writes]

Commit(i, c) ==
    /\ tasks' = [tasks EXCEPT ![i] = c.t]
    /\ text_cache' = c.txt
    /\ ner_cache' = c.ner
    /\ relation_cache' = c.rel
    /\ received' = [received EXCEPT ![i] = c.received]
    /\ writes' = c.writes

\* the calls running in the threads of self.executor
Running ==
    Cardinality({i \in 1..Len(tasks) : tasks[i].pc = "running"})
        + (IF phase \in {"extracting", "storing"} THEN 1 ELSE 0)

\* ThreadPoolExecutor(max_workers): a submitted call starts when fewer than
\* max_workers calls are running
WorkerFree(running, max) == running < max

\* run_single is called: the text cache read (if use_cache); a cached text
\* goes to the chunks, otherwise extractor.extract is submitted to self.executor
ProcStart ==
    /\ phase = "idle"
    /\ run < MaxRuns
    /\ run' = run + 1
    /\ LET cached == IF use_cache THEN Lookup(text_cache, TextKey) ELSE Miss
           split == SplitTextIntoChunks(cached.value, max_chunk_size)
       IN IF Truthy(cached)
          THEN /\ phase' = "gather"
               /\ chunks' = split
               /\ tasks' = [i \in 1..Len(split) |-> NewChunkTask(split[i], use_cache)]
               /\ received' = [i \in 1..Len(split) |-> <<>>]
          ELSE /\ phase' = "extract_queued"
               /\ chunks' = <<>>
               /\ tasks' = <<>>
               /\ received' = <<>>
    /\ UNCHANGED <<text_cache, ner_cache, relation_cache, writes>>

\* a worker of the pool takes the extraction
PoolStartExtract ==
    /\ phase = "extract_queued"
    /\ WorkerFree(Running, max_workers)
    /\ phase' = "extracting"
    /\ UNCHANGED <<chunks, text_cache, ner_cache, relation_cache, tasks, run, received, writes>>

\* extractor.extract returns: cache_extracted_text (if use_cache), the split,
\* and the chunk coroutines handed to asyncio.gather
ExtractReturn ==
    /\ phase = "extracting"
    /\ phase' = "gather"
    /\ text_cache' = IF use_cache THEN StoreValue(text_cache, TextKey, text) ELSE text_cache
    /\ writes' = IF use_cache
                 THEN writes \cup {[cache |-> "text", category |-> "text",
                                    by |-> "orchestrator"]}
                 ELSE writes
    /\ LET split == SplitTextIntoChunks(text, max_chunk_size)
       IN /\ chunks' = split
          /\ tasks' = [i \in 1..Len(split) |-> NewChunkTask(split[i], use_cache)]
          /\ received' = [i \in 1..Len(split) |-> <<>>]
    /\ UNCHANGED <<ner_cache, relation_cache, run>>

\* _process_text_chunk starts: the two cache reads (if use_cache), then the
\* processor loop up to its first suspension; tasks start in list order
ChunkBegin(i) ==
    /\ phase = "gather"
    /\ i \in 1..Len(tasks)
    /\ tasks[i].pc = "new"
    /\ \A j \in 1..(i - 1) : tasks[j].pc # "new"
    /\ LET t == tasks[i]
           read == IF t.use_cache
                   THEN [t EXCEPT !.ner_cached = Lookup(ner_cache, NerKey(t.chunk)),
                                  !.relations_cached =
                                      Lookup(relation_cache, RelKey(t.chunk))]
                   ELSE t
       IN Commit(i, Walk([Context(i) EXCEPT !.t = read]))
    /\ UNCHANGED <<chunks, run, phase>>

\* the event loop resumes a suspended coroutine only after every coroutine
\* handed to gather has run up to its first suspension
AllBegun == \A j \in 1..Len(tasks) : tasks[j].pc # "new"

\* the decorated process_async returns after a miss: the decorator stores the
\* result in the cache of its cache_type, the orchestrator goes on
AsyncReturn(i) ==
    /\ i \in 1..Len(tasks)
    /\ tasks[i].pc = "async"
    /\ AllBegun
    /\ LET t == tasks[i]
           p == processors[t.at]
           out == ProcessorResult(p, t.current_data)
           set == IF Decorated(p)
                  THEN Stored(Context(i), DecoratorCache(p.cache_type),
                              DecoratorKey(t.current_data), out, CategoryOf(p), "decorator")
                  ELSE Context(i)
       IN Commit(i, AfterProcessor(set, out))
    /\ UNCHANGED <<chunks, run, phase>>

\* a worker of the pool takes the submitted processor.process
PoolStart(i) ==
    /\ i \in 1..Len(tasks)
    /\ tasks[i].pc = "queued"
    /\ WorkerFree(Running, max_workers)
    /\ tasks' = [tasks EXCEPT ![i].pc = "running"]
    /\ UNCHANGED <<chunks, text_cache, ner_cache, relation_cache, run, phase, received, writes>>

\* processor.process returns in its worker, the orchestrator goes on
PoolReturn(i) ==
    /\ i \in 1..Len(tasks)
    /\ tasks[i].pc = "running"
    /\ AllBegun
    /\ Commit(i, AfterProcessor(Context(i),
                                ProcessorResult(processors[tasks[i].at],
                                                tasks[i].current_data)))
    /\ UNCHANGED <<chunks, run, phase>>

\* asyncio.gather has every chunk result; after the aggregation
\* storage.store is submitted to self.executor
ProcGather ==
    /\ phase = "gather"
    /\ \A i \in 1..Len(tasks) : tasks[i].pc = "done"
    /\ phase' = "store_queued"
    /\ UNCHANGED <<chunks, text_cache, ner_cache, relation_cache, tasks, run, received, writes>>

\* a worker of the pool takes the storage call
PoolStartStore ==
    /\ phase = "store_queued"
    /\ WorkerFree(Running, max_workers)
    /\ phase' = "storing"
    /\ UNCHANGED <<chunks, text_cache, ner_cache, relation_cache, tasks, run, received, writes>>

\* storage.store returns and run_single returns its PipelineResult
StoreReturn ==
    /\ phase = "storing"
    /\ phase' = "idle"
    /\ UNCHANGED <<chunks, text_cache, ner_cache, relation_cache, tasks, run, received, writes>>

\* a pipeline without processors, nothing received, nothing written
ProcIdle ==
    /\ processors = <<>>
    /\ max_workers = 1
    /\ received = <<>>
    /\ writes = {}

\* the other components stay as constructed
PipeIdle ==
    /\ ChunkIdle
    /\ KeyIdle
    /\ DedupIdle
    /\ RunIdle
    /\ ProcIdle

\* --------------------------------------------------------------- Spec
\* one caller, a cache of any capacity 1..MaxCap and any default ttl
Init ==
    /\ CacheInit
    /\ ConcInit
    /\ BatchIdle
    /\ FusionIdle
    /\ PipeIdle
    /\ max_size \in 1..MaxCap
    /\ default_ttl \in DefaultTtls

Next ==
    \/ Tick /\ UNCHANGED <<concVars, batchVars, fusionVars, pipeVars>>
    \/ \E k \in Keys : Get(k) /\ UNCHANGED <<concVars, batchVars, fusionVars, pipeVars>>
    \/ \E k \in Keys, v \in Values, ttl \in TtlArgs : Set(k, v, ttl) /\ UNCHANGED <<concVars, batchVars, fusionVars, pipeVars>>
    \/ \E k \in Keys : Invalidate(k) /\ UNCHANGED <<concVars, batchVars, fusionVars, pipeVars>>
    \/ Clear /\ UNCHANGED <<concVars, batchVars, fusionVars, pipeVars>>
    \/ Stats /\ UNCHANGED <<concVars, batchVars, fusionVars, pipeVars>>

Spec == Init /\ [][Next]_vars

\* ------------------------------------------------------------ LruSpec
\* one caller, a cache of capacity MaxCap + 1 whose entries never expire
LruInit ==
    /\ CacheInit
    /\ ConcInit
    /\ BatchIdle
    /\ FusionIdle
    /\ PipeIdle
    /\ max_size = MaxCap + 1
    /\ default_ttl = None

LruNext ==
    \/ \E k \in Keys : Get(k) /\ UNCHANGED <<concVars, batchVars, fusionVars, pipeVars>>
    \/ \E k \in Keys, v \in Values : Set(k, v, None) /\ UNCHANGED <<concVars, batchVars, fusionVars, pipeVars>>
    \/ \E k \in Keys : Invalidate(k) /\ UNCHANGED <<concVars, batchVars, fusionVars, pipeVars>>
    \/ Clear /\ UNCHANGED <<concVars, batchVars, fusionVars, pipeVars>>
    \/ Stats /\ UNCHANGED <<concVars, batchVars, fusionVars, pipeVars>>

LruSpec == LruInit /\ [][LruNext]_vars

\* ----------------------------------------------------------- ConcSpec
\* NumTasks tasks making MaxCalls calls in all on one cache
ConcNext ==
    \/ \E t \in Tasks, a \in CallArgs : Call(t, a) /\ UNCHANGED <<max_size, default_ttl, last, setInfo, touchOrder, batchVars, fusionVars, pipeVars>>
    \/ \E t \in Tasks : Acquire(t) /\ UNCHANGED <<max_size, default_ttl, last, setInfo, touchOrder, batchVars, fusionVars, pipeVars>>
    \/ \E t \in Tasks : GetBody(t) /\ UNCHANGED <<max_size, default_ttl, last, setInfo, touchOrder, batchVars, fusionVars, pipeVars>>
    \/ \E t \in Tasks : SetCleanup(t) /\ UNCHANGED <<max_size, default_ttl, last, setInfo, touchOrder, batchVars, fusionVars, pipeVars>>
    \/ \E t \in Tasks : SetBody(t) /\ UNCHANGED <<max_size, default_ttl, last, setInfo, touchOrder, batchVars, fusionVars, pipeVars>>
    \/ \E t \in Tasks : InvalidateBody(t) /\ UNCHANGED <<max_size, default_ttl, last, setInfo, touchOrder, batchVars, fusionVars, pipeVars>>
    \/ \E t \in Tasks : ClearBody(t) /\ UNCHANGED <<max_size, default_ttl, last, setInfo, touchOrder, batchVars, fusionVars, pipeVars>>
    \/ \E t \in Tasks : StatsCleanup(t) /\ UNCHANGED <<max_size, default_ttl, last, setInfo, touchOrder, batchVars, fusionVars, pipeVars>>
    \/ \E t \in Tasks : StatsBody(t) /\ UNCHANGED <<max_size, default_ttl, last, setInfo, touchOrder, batchVars, fusionVars, pipeVars>>
    \/ ConcTick /\ UNCHANGED <<max_size, default_ttl, last, setInfo, touchOrder, batchVars, fusionVars, pipeVars>>

ConcSpec == Init /\ [][ConcNext]_vars

\* ---------------------------------------------------------- BatchSpec
\* run_batch over NumSources sources with max_concurrent in 1..MaxConcurrent
BatchSpecInit ==
    /\ CacheInit
    /\ ConcInit
    /\ BatchInit
    /\ FusionIdle
    /\ PipeIdle
    /\ max_size = 1
    /\ default_ttl = None

BatchNext ==
    \/ \E s \in Sources : SemAcquire(s) /\ UNCHANGED <<cacheVars, concVars, fusionVars, pipeVars>>
    \/ \E s \in Sources : Extract(s) /\ UNCHANGED <<cacheVars, concVars, fusionVars, pipeVars>>
    \/ \E s \in Sources : ExtractFail(s) /\ UNCHANGED <<cacheVars, concVars, fusionVars, pipeVars>>
    \/ \E s \in Sources, n \in 1..MaxChunks : Dispatch(s, n) /\ UNCHANGED <<cacheVars, concVars, fusionVars, pipeVars>>
    \/ \E s \in Sources, c \in 1..MaxChunks : ChunkOk(s, c) /\ UNCHANGED <<cacheVars, concVars, fusionVars, pipeVars>>
    \/ \E s \in Sources, c \in 1..MaxChunks : ChunkFail(s, c) /\ UNCHANGED <<cacheVars, concVars, fusionVars, pipeVars>>
    \/ \E s \in Sources : GatherOk(s) /\ UNCHANGED <<cacheVars, concVars, fusionVars, pipeVars>>
    \/ \E s \in Sources : GatherFail(s) /\ UNCHANGED <<cacheVars, concVars, fusionVars, pipeVars>>
    \/ \E s \in Sources : Aggregate(s) /\ UNCHANGED <<cacheVars, concVars, fusionVars, pipeVars>>
    \/ \E s \in Sources, o \in StoreOutcomes : Store(s, o) /\ UNCHANGED <<cacheVars, concVars, fusionVars, pipeVars>>
    \/ BatchReturn /\ UNCHANGED <<cacheVars, concVars, fusionVars, pipeVars>>

BatchSpec == BatchSpecInit /\ [][BatchNext]_vars

\* ------------------------------------------------------- BatchLiveSpec
\* run_batch on an event loop that goes on running what is ready: a run_single
\* that can take its next step takes it (every run_single terminates), a
\* source waiting at a free semaphore gets it, a gather whose items are all
\* there returns
BatchLiveSpec == BatchSpecInit /\ [][BatchNext]_vars /\ WF_vars(BatchNext)

\* ---------------------------------------------------------- FusionSpec
\* one extractor, up to MaxFuseCalls calls of _ensemble_relations
FusionSpecInit ==
    /\ CacheInit
    /\ ConcInit
    /\ BatchIdle
    /\ FusionInit
    /\ PipeIdle
    /\ max_size = 1
    /\ default_ttl = None

FusionNext ==
    \/ Ensemble /\ UNCHANGED <<cacheVars, concVars, batchVars, pipeVars>>

FusionSpec == FusionSpecInit /\ [][FusionNext]_vars

\* ----------------------------------------------------------- ChunkSpec
\* _split_text_into_chunks applied to a text of up to MaxTextLen characters
ChunkSpecInit ==
    /\ CacheInit
    /\ ConcInit
    /\ BatchIdle
    /\ FusionIdle
    /\ ChunkInit
    /\ KeyIdle
    /\ DedupIdle
    /\ RunIdle
    /\ ProcIdle
    /\ max_size = 1
    /\ default_ttl = None

ChunkNext ==
    \/ SplitText /\ UNCHANGED <<cacheVars, concVars, batchVars, fusionVars, keyVars, dedupVars, runVars, procVars>>

ChunkSpec == ChunkSpecInit /\ [][ChunkNext]_vars

\* ------------------------------------------------------------- KeySpec
\* up to MaxKeyCalls keys asked of one AutoGraphCacheManager
KeySpecInit ==
    /\ CacheInit
    /\ ConcInit
    /\ BatchIdle
    /\ FusionIdle
    /\ ChunkIdle
    /\ KeyIdle
    /\ DedupIdle
    /\ RunIdle
    /\ ProcIdle
    /\ max_size = 1
    /\ default_ttl = None

KeyNext ==
    \/ \E content \in KeyContents, d \in Discriminators :
          MakeKey("ner", content, d)
              /\ UNCHANGED <<cacheVars, concVars, batchVars, fusionVars, chunkVars, dedupVars, runVars, procVars>>
    \/ \E content \in KeyContents, d \in Discriminators :
          MakeKey("relations", content, d)
              /\ UNCHANGED <<cacheVars, concVars, batchVars, fusionVars, chunkVars, dedupVars, runVars, procVars>>

KeySpec == KeySpecInit /\ [][KeyNext]_vars

\* ----------------------------------------------------------- DedupSpec
\* the aggregation step on the results of up to MaxResultChunks chunks
DedupSpecInit ==
    /\ CacheInit
    /\ ConcInit
    /\ BatchIdle
    /\ FusionIdle
    /\ ChunkIdle
    /\ KeyIdle
    /\ DedupInit
    /\ RunIdle
    /\ ProcIdle
    /\ max_size = 1
    /\ default_ttl = None

DedupNext ==
    \/ AggregateResults /\ UNCHANGED <<cacheVars, concVars, batchVars, fusionVars, chunkVars, keyVars, runVars, procVars>>
    \/ DedupAgain /\ UNCHANGED <<cacheVars, concVars, batchVars, fusionVars, chunkVars, keyVars, runVars, procVars>>

DedupSpec == DedupSpecInit /\ [][DedupNext]_vars

\* ------------------------------------------------------------ CtorSpec
\* LRUCache(max_size, default_ttl) with any integer max_size, then one caller
\* LRUCache.__init__ stores its arguments and returns
CtorSpecInit ==
    /\ CacheInit
    /\ ConcInit
    /\ BatchIdle
    /\ FusionIdle
    /\ PipeIdle
    /\ max_size \in CapacityArgs
    /\ default_ttl \in DefaultTtls

CtorNext ==
    \/ Tick /\ UNCHANGED <<concVars, batchVars, fusionVars, pipeVars>>
    \/ \E k \in Keys : Get(k) /\ UNCHANGED <<concVars, batchVars, fusionVars, pipeVars>>
    \/ \E k \in Keys, v \in Values, ttl \in TtlArgs :
          ~SetRaises(max_size) /\ Set(k, v, ttl)
              /\ UNCHANGED <<concVars, batchVars, fusionVars, pipeVars>>
    \/ \E k \in Keys, v \in Values, ttl \in TtlArgs :
          SetRaise(k, v, ttl) /\ UNCHANGED <<concVars, batchVars, fusionVars, pipeVars>>
    \/ \E k \in Keys : Invalidate(k) /\ UNCHANGED <<concVars, batchVars, fusionVars, pipeVars>>
    \/ Clear /\ UNCHANGED <<concVars, batchVars, fusionVars, pipeVars>>
    \/ Stats /\ UNCHANGED <<concVars, batchVars, fusionVars, pipeVars>>

CtorSpec == CtorSpecInit /\ [][CtorNext]_vars

\* ------------------------------------------------------------- RunSpec
\* run_single called up to MaxRuns times on one unchanged source, by a
\* pipeline whose caches are empty and of which at most one has size 0
RunSpecInit ==
    /\ CacheInit
    /\ ConcInit
    /\ BatchIdle
    /\ FusionIdle
    /\ KeyIdle
    /\ DedupIdle
    /\ ProcIdle
    /\ max_size = 1
    /\ default_ttl = None
    /\ text \in RunTexts
    /\ max_chunk_size = MaxChunkSize
    /\ chunks = <<>>
    /\ chunked = FALSE
    /\ use_cache \in BOOLEAN
    /\ zero_cache \in {"none", "text", "ner", "relations"}
    /\ text_cache = <<>>
    /\ ner_cache = <<>>
    /\ relation_cache = <<>>
    /\ tasks = <<>>
    /\ ended = <<>>
    /\ run = 0
    /\ phase = "idle"
    /\ invoked = {}
    /\ outcomes = <<>>
    /\ chunk_size = 1
    /\ spos = 0
    /\ chunk_number = 0
    /\ yielded = <<>>
    /\ slog = <<>>

RunNext ==
    \/ RunStart /\ UNCHANGED <<cacheVars, concVars, batchVars, fusionVars, keyVars, runRest, procVars>>
    \/ \E outcome \in {"return", "raise"} :
          RunExtract(outcome)
              /\ UNCHANGED <<cacheVars, concVars, batchVars, fusionVars, keyVars, runRest, procVars>>
    \/ \E i \in 1..MaxTextLen :
          TaskBegin(i)
              /\ UNCHANGED <<cacheVars, concVars, batchVars, fusionVars, keyVars, runRest, procVars>>
    \/ \E i \in 1..MaxTextLen, outcome \in {"return", "raise"} :
          TaskResume(i, outcome)
              /\ UNCHANGED <<cacheVars, concVars, batchVars, fusionVars, keyVars, runRest, procVars>>
    \/ RunGather /\ UNCHANGED <<cacheVars, concVars, batchVars, fusionVars, keyVars, runRest, procVars>>
    \/ \E outcome \in {"return", "raise"} :
          RunStore(outcome)
              /\ UNCHANGED <<cacheVars, concVars, batchVars, fusionVars, keyVars, runRest, procVars>>

RunSpec == RunSpecInit /\ [][RunNext]_vars

\* ----------------------------------------------------------- StreamSpec
\* run_streaming over one file, read chunk_size characters at a time
StreamSpecInit ==
    /\ CacheInit
    /\ ConcInit
    /\ BatchIdle
    /\ FusionIdle
    /\ KeyIdle
    /\ DedupIdle
    /\ ProcIdle
    /\ max_size = 1
    /\ default_ttl = None
    /\ text \in Texts
    /\ max_chunk_size = 1
    /\ chunks = <<>>
    /\ chunked = FALSE
    /\ use_cache = TRUE
    /\ zero_cache = "none"
    /\ text_cache = <<>>
    /\ ner_cache = <<>>
    /\ relation_cache = <<>>
    /\ tasks = <<>>
    /\ ended = <<>>
    /\ run = 0
    /\ phase = "reading"
    /\ invoked = {}
    /\ outcomes = <<>>
    /\ chunk_size \in 1..MaxReadSize
    /\ spos = 0
    /\ chunk_number = 0
    /\ yielded = <<>>
    /\ slog = <<>>

StreamNext ==
    \/ \E outcome \in {"return", "raise"} :
          StreamRead(outcome)
              /\ UNCHANGED <<cacheVars, concVars, batchVars, fusionVars, keyVars, runRest, procVars>>
    \/ \E outcome \in {"return", "raise"} :
          TaskResume(1, outcome)
              /\ UNCHANGED <<cacheVars, concVars, batchVars, fusionVars, keyVars, runRest, procVars>>
    \/ StreamYield /\ UNCHANGED <<cacheVars, concVars, batchVars, fusionVars, keyVars, runRest, procVars>>
    \/ StreamSkip /\ UNCHANGED <<cacheVars, concVars, batchVars, fusionVars, keyVars, runRest, procVars>>
    \/ StreamResume /\ UNCHANGED <<cacheVars, concVars, batchVars, fusionVars, keyVars, runRest, procVars>>

StreamSpec == StreamSpecInit /\ [][StreamNext]_vars

\* ---------------------------------------------------------- WeightSpec
\* one extractor configured with weights from the ends of [0, 1]
WeightSpecInit ==
    /\ CacheInit
    /\ ConcInit
    /\ BatchIdle
    /\ WeightInit
    /\ PipeIdle
    /\ max_size = 1
    /\ default_ttl = None

WeightNext ==
    \/ Ensemble /\ UNCHANGED <<cacheVars, concVars, batchVars, pipeVars>>

WeightSpec == WeightSpecInit /\ [][WeightNext]_vars

\* ------------------------------------------------------------ ProcSpec
\* run_single called up to MaxRuns times on one unchanged source by a
\* pipeline with one of the processor lists and max_workers in
\* 1..MaxWorkers: every processor call with its form, the worker pool and
\* the cache decorator
ProcSpecInit ==
    /\ CacheInit
    /\ ConcInit
    /\ BatchIdle
    /\ FusionIdle
    /\ KeyIdle
    /\ DedupIdle
    /\ max_size = 1
    /\ default_ttl = None
    /\ text \in RunTexts \ {<<>>}
    /\ max_chunk_size = MaxChunkSize
    /\ chunks = <<>>
    /\ chunked = FALSE
    /\ use_cache \in BOOLEAN
    /\ zero_cache = "none"
    /\ text_cache = <<>>
    /\ ner_cache = <<>>
    /\ relation_cache = <<>>
    /\ tasks = <<>>
    /\ ended = <<>>
    /\ run = 0
    /\ phase = "idle"
    /\ invoked = {}
    /\ outcomes = <<>>
    /\ chunk_size = 1
    /\ spos = 0
    /\ chunk_number = 0
    /\ yielded = <<>>
    /\ slog = <<>>
    /\ processors \in ProcessorLists
    /\ max_workers \in 1..MaxWorkers
    /\ received = <<>>
    /\ writes = {}

ProcNext ==
    \/ ProcStart /\ UNCHANGED <<cacheVars, concVars, batchVars, fusionVars, keyVars, dedupVars, procRest>>
    \/ PoolStartExtract /\ UNCHANGED <<cacheVars, concVars, batchVars, fusionVars, keyVars, dedupVars, procRest>>
    \/ ExtractReturn /\ UNCHANGED <<cacheVars, concVars, batchVars, fusionVars, keyVars, dedupVars, procRest>>
    \/ \E i \in 1..MaxTextLen :
          ChunkBegin(i) /\ UNCHANGED <<cacheVars, concVars, batchVars, fusionVars, keyVars, dedupVars, procRest>>
    \/ \E i \in 1..MaxTextLen :
          AsyncReturn(i) /\ UNCHANGED <<cacheVars, concVars, batchVars, fusionVars, keyVars, dedupVars, procRest>>
    \/ \E i \in 1..MaxTextLen :
          PoolStart(i) /\ UNCHANGED <<cacheVars, concVars, batchVars, fusionVars, keyVars, dedupVars, procRest>>
    \/ \E i \in 1..MaxTextLen :
          PoolReturn(i) /\ UNCHANGED <<cacheVars, concVars, batchVars, fusionVars, keyVars, dedupVars, procRest>>
    \/ ProcGather /\ UNCHANGED <<cacheVars, concVars, batchVars, fusionVars, keyVars, dedupVars, procRest>>
    \/ PoolStartStore /\ UNCHANGED <<cacheVars, concVars, batchVars, fusionVars, keyVars, dedupVars, procRest>>
    \/ StoreReturn /\ UNCHANGED <<cacheVars, concVars, batchVars, fusionVars, keyVars, dedupVars, procRest>>

ProcSpec == ProcSpecInit /\ [][ProcNext]_vars

\* ==================================================================
\* C1: on a cache built with max_size >= 1, after any sequence of get, set,
\* invalidate, clear and stats calls the number of resident entries is at most
\* max_size.
CapacityInvariant == Len(cache) <= max_size

\* a set has just evicted an entry of a full cache
CapacityWitness ==
    /\ last.op = "set"
    /\ last.evicted # <<>>
    /\ Len(cache) = max_size

\* C2: whenever a set removes a non-expired entry because the cache is at
\* capacity, the removed entry is the resident entry whose last touch (set or
\* successful get) is the oldest.
EvictsLeastRecentlyTouched ==
    (last.op = "set" /\ last.evicted # <<>>) => last.evicted = <<Head(last.lru)>>

\* C3: with any number of tasks calling the cache, at most one task is inside a
\* lock-guarded section at a time, and the cache and every result are those of
\* running the same calls one after another.
InSection(t) == tpc[t] \in {"cleanup", "body"}

SerializedByLock ==
    /\ Cardinality({t \in Tasks : InSection(t)}) <= 1
    /\ (\A t \in Tasks : ~InSection(t)) => (cache = serial /\ agree)
    /\ (\E t \in Tasks : InSection(t)) => (lock # 0 /\ InSection(lock))

\* one task is between the sweep and the store of a set while another waits
\* for the lock, after an earlier call put an entry in the cache
LockContended ==
    \E t, u \in Tasks :
        /\ tpc[t] = "body" /\ tcall[t].op = "set"
        /\ tpc[u] = "acquire"
        /\ cache # <<>>

\* C9: a get of a key more than t time units after it was set with ttl t returns
\* miss and removes the entry (size decreases by one); a get at age <= t returns
\* the stored value.
TtlExpiry ==
    (last.op = "get" /\ last.set # NoSet /\ last.set.ttl # None) =>
        IF last.time - last.set.time > last.set.ttl
        THEN /\ last.result = None
             /\ ~HasKey(cache, last.key)
             /\ Len(cache) = last.sizeBefore - 1
        ELSE last.result = last.set.value

\* C10: set(k, v) followed by get(k) returns v when no eviction, invalidation,
\* clear or expiry of k happened in between.
RoundTrip ==
    (last.op = "get" /\ last.set # NoSet /\ ~SetExpired(last.set, last.time, default_ttl))
        => last.result = last.set.value

\* a get has just returned the value of a set that replaced an earlier entry of
\* the key, with another key resident
RoundTripWitness ==
    /\ last.op = "get"
    /\ last.set # NoSet
    /\ ~SetExpired(last.set, last.time, default_ttl)
    /\ last.result = last.set.value
    /\ last.set.value # 1
    /\ Len(cache) > 1

\* C4: during run_batch at most max_concurrent run_single executions have
\* started and not yet finished.
BoundedConcurrency ==
    Cardinality({s \in Sources : InFlight(s)}) <= max_concurrent

\* max_concurrent runs are in flight while another source waits for a permit
ConcurrencyAtLimit ==
    /\ Cardinality({s \in Sources : InFlight(s)}) = max_concurrent
    /\ \E s \in Sources : rpc[s] = "waiting"

\* the sources whose run_single returned a PipelineResult, in source order
RECURSIVE DoneFrom(_)
DoneFrom(s) ==
    IF s > NumSources THEN <<>>
    ELSE (IF rpc[s] = "done" THEN <<s>> ELSE <<>>) \o DoneFrom(s + 1)

\* C5: run_batch never raises because a run_single raised; every source whose
\* run_single succeeds contributes exactly one PipelineResult to the returned
\* list and every failing source contributes none.
FailureIsolation ==
    bpc = "returned" =>
        /\ ret.kind = "list"
        /\ [i \in 1..Len(ret.results) |-> ret.results[i].source] = DoneFrom(1)
        /\ \A i \in 1..Len(ret.results) : ret.results[i].kind = "result"

\* run_batch has returned after a source that failed and a later source that
\* succeeded
MixedBatchReturned ==
    /\ bpc = "returned"
    /\ \E s, u \in Sources : s < u /\ rpc[s] = "failed" /\ rpc[u] = "done"

\* C6: run_batch gives its caller, alongside the successful results, one
\* (source, error) record for every source whose run failed.
FailuresReturned ==
    bpc = "returned" =>
        \A s \in Sources :
            rpc[s] = "failed" =>
                \E i \in 1..Len(ret.results) :
                    ret.results[i].source = s /\ ret.results[i].kind = "exception"

IsPrefix(a, b) == Len(a) <= Len(b) /\ a = SubSeq(b, 1, Len(a))

\* a step of the run failed: the extractor or a chunk raised, or the storage
\* call raised or reported failure
StepFailed(s) ==
    \/ hist[s] = <<"failed">>
    \/ \E c \in 1..Len(cpc[s]) : cpc[s][c] = "failed"
    \/ storeOut[s] \in {"raise", "false"}

\* C7: the steps of run_single occur in the order extract, chunk, dispatch,
\* aggregate, persist, done; every chunk task has finished before aggregation
\* starts; storage is invoked only after deduplication and only if no chunk
\* failed; a result is returned only after storage has completed; a failure at
\* any step ends the run with an error and no result.
StepOrdering ==
    \A s \in Sources :
        /\ \/ IsPrefix(hist[s], StepOrder)
           \/ /\ hist[s] # <<>>
              /\ hist[s][Len(hist[s])] = "failed"
              /\ IsPrefix(SubSeq(hist[s], 1, Len(hist[s]) - 1), StepOrder)
        /\ rpc[s] \in {"aggregate", "persist", "done"} =>
               \A c \in 1..Len(cpc[s]) : cpc[s][c] = "ok"
        /\ storeCalls[s] > 0 =>
               /\ IsPrefix(<<"extract", "chunk", "dispatch", "aggregate">>, hist[s])
               /\ \A c \in 1..Len(cpc[s]) : cpc[s][c] = "ok"
        /\ rpc[s] = "done" => (storeCalls[s] = 1 /\ storeOut[s] # "none")
        /\ (Finished(s) /\ StepFailed(s)) => rpc[s] = "failed"

\* C8: the storage is called at most once per run_single, and a run whose store
\* call raised or reported failure never returns a PipelineResult.
StoreFailureFailsRun ==
    \A s \in Sources :
        /\ storeCalls[s] <= 1
        /\ storeOut[s] \in {"raise", "false"} => rpc[s] # "done"

\* ------------------------------------------------------------ fusion claims
\* what a returned list says: the candidates' identities and confidences
OutSet(relations) ==
    {<<relations[i].source, relations[i].target, relations[i].relationship,
       relations[i].confidence>> : i \in 1..Len(relations)}

\* C11: for a fixed pair of input lists and a fixed strategy, every repeated
\* call of the fusion on those lists returns the same set of candidates (same
\* identities, same confidences) as the first call did.
FusionDeterminism == fcalls >= 2 => OutSet(result) = OutSet(first)

\* the identity of a candidate: (source, target, relation type), letter case
\* aside
NormIdent(rel) == <<Lower(rel.source), Lower(rel.target), Lower(rel.relationship)>>

\* the last call took the weighted_union branch
WeightedCall == fcalls >= 1 /\ ensemble_method \notin (KnownMethods \ {"weighted_union"})

\* confidence c under weight w (in hundredths)
Weighted(c, w) == (c * w) \div 100

\* the weighted confidences of all candidates of identity id in the last call
WeightedOfIdent(id) ==
    {Weighted(flast.rules[k].confidence, flast.w_rule) :
        k \in {n \in 1..Len(flast.rules) : NormIdent(flast.rules[n]) = id}}
    \cup
    {Weighted(flast.ml[k].confidence, flast.w_ml) :
        k \in {n \in 1..Len(flast.ml) : NormIdent(flast.ml[n]) = id}}

SetMax(S) == CHOOSE x \in S : \A y \in S : y <= x

\* C12: in weighted_union, an identity produced by both sources has exactly one
\* entry in the merged list; that entry is the candidate of the highest
\* weighted confidence, its confidence is min(1.0, 1.3 * that weighted
\* confidence) under the adaptive weights, and it is flagged as agreed.
ConsensusMerge ==
    WeightedCall =>
        \A i \in 1..Len(flast.rules), j \in 1..Len(flast.ml) :
            NormIdent(flast.rules[i]) = NormIdent(flast.ml[j]) =>
                LET id == NormIdent(flast.rules[i])
                    top == SetMax(WeightedOfIdent(id))
                    hits == {k \in 1..Len(flast.merged) : NormIdent(flast.merged[k]) = id}
                IN /\ Cardinality(hits) = 1
                   /\ \A k \in hits :
                        /\ flast.merged[k].confidence = Min(One, (13 * top) \div 10)
                        /\ flast.merged[k].ensemble_agreement
                        /\ Weighted(flast.merged[k].original_confidence,
                                    IF flast.merged[k].ensemble_source = "rules"
                                    THEN flast.w_rule ELSE flast.w_ml) = top

\* rule confidence 0.5 and ML confidence 0.6 on one identity under the weights
\* 0.3/0.7 were merged into one entry of confidence 0.546
ConsensusWitness ==
    /\ WeightedCall
    /\ flast.w_rule = 30 /\ flast.w_ml = 70
    /\ \E i \in 1..Len(flast.rules), j \in 1..Len(flast.ml), k \in 1..Len(flast.merged) :
          /\ NormIdent(flast.rules[i]) = NormIdent(flast.ml[j])
          /\ NormIdent(flast.merged[k]) = NormIdent(flast.ml[j])
          /\ flast.rules[i].confidence = Conf(5)
          /\ flast.ml[j].confidence = Conf(6)
          /\ flast.merged[k].confidence = 546 * (One \div 1000)
          /\ flast.merged[k].ensemble_agreement

\* C13: weighted_union returns exactly the merged entries whose final
\* confidence is at least 0.3, in their merged order: none below 0.3 is
\* returned and none at or above 0.3 is left out.
FloorExact ==
    WeightedCall =>
        /\ \A k \in 1..Len(result) : result[k].confidence >= 3 * (One \div 10)
        /\ \A k \in 1..Len(flast.merged) :
              flast.merged[k].confidence >= 3 * (One \div 10) =>
                  \E n \in 1..Len(result) : result[n] = flast.merged[k]
        /\ \A n \in 1..Len(result) : \E k \in 1..Len(flast.merged) : result[n] = flast.merged[k]
        /\ Len(result) =
              Cardinality({k \in 1..Len(flast.merged) :
                              flast.merged[k].confidence >= 3 * (One \div 10)})

\* a weighted_union call kept a merged entry of confidence exactly 0.3 and
\* dropped one below 0.3
FloorWitness ==
    /\ WeightedCall
    /\ \E n \in 1..Len(result) : result[n].confidence = 3 * (One \div 10)
    /\ \E k \in 1..Len(flast.merged) : flast.merged[k].confidence < 3 * (One \div 10)

\* the adaptive weight of a source of base weight w, boosted or not
AdaptiveOf(w, boosted) == IF boosted THEN (w * 12) \div 10 ELSE w

\* every candidate entered the merge with its input confidence times the
\* adaptive weight of its own source
WeightedBeforeMerge ==
    /\ Len(flast.all) = Len(flast.rules) + Len(flast.ml)
    /\ \A i \in 1..Len(flast.rules) :
          flast.all[i].confidence = Weighted(flast.rules[i].confidence, flast.w_rule)
    /\ \A j \in 1..Len(flast.ml) :
          flast.all[Len(flast.rules) + j].confidence =
              Weighted(flast.ml[j].confidence, flast.w_ml)

\* C14 as stated: weighted_union multiplies a source's base weight by 1.2
\* exactly when the other source supplies more than 80% of all candidates, and
\* every candidate enters the merge with input confidence times its source's
\* adaptive weight.
AdaptiveWeightAsStated ==
    WeightedCall =>
        LET rc == Len(flast.rules)
            mc == Len(flast.ml)
        IN /\ flast.w_rule = AdaptiveOf(rule_weight, 10 * mc > 8 * (rc + mc))
           /\ flast.w_ml = AdaptiveOf(ml_weight, 10 * rc > 8 * (rc + mc))
           /\ WeightedBeforeMerge

\* C14, amended: weighted_union multiplies a source's base weight by 1.2
\* exactly when both lists are non-empty and the other source supplies more
\* than 80% of all candidates, and uses the base weight otherwise; every
\* candidate enters the merge with input confidence times its source's
\* adaptive weight.
AdaptiveWeight ==
    WeightedCall =>
        LET rc == Len(flast.rules)
            mc == Len(flast.ml)
        IN /\ flast.w_rule = AdaptiveOf(rule_weight, rc > 0 /\ 10 * mc > 8 * (rc + mc))
           /\ flast.w_ml = AdaptiveOf(ml_weight, mc > 0 /\ 10 * rc > 8 * (rc + mc))
           /\ WeightedBeforeMerge

\* a weighted_union call in which the ML source supplied more than 80% of the
\* candidates and the rule candidates were weighted with 1.2 * rule_weight
AdaptiveWeightWitness ==
    /\ WeightedCall
    /\ Len(flast.rules) > 0
    /\ 10 * Len(flast.ml) > 8 * (Len(flast.rules) + Len(flast.ml))
    /\ flast.w_rule = (rule_weight * 12) \div 10
    /\ flast.w_ml = ml_weight
    /\ flast.all[1].confidence = Weighted(flast.rules[1].confidence, (rule_weight * 12) \div 10)

\* the last call ran strategy m
StrategyCall(m) == fcalls >= 1 /\ ensemble_method = m

\* the candidates of a list whose identity did not occur earlier in it
FirstOfIdentity(relations) ==
    LET first_at == SelectSeq([i \in 1..Len(relations) |-> i],
                       LAMBDA i : \A j \in 1..(i - 1) :
                                     NormIdent(relations[j]) # NormIdent(relations[i]))
    IN [k \in 1..Len(first_at) |-> relations[first_at[k]]]

\* no two candidates of the list have the same identity
DuplicateFree(relations) ==
    \A i, j \in 1..Len(relations) :
        NormIdent(relations[i]) = NormIdent(relations[j]) => i = j

\* C15: with strategy union the output is rules + model without every
\* candidate whose identity (source, target, relation type, letter case aside)
\* occurred earlier in the concatenation, each kept candidate with its input
\* confidence; so for duplicate-free inputs
\* max(|rules|, |model|) <= |output| <= |rules| + |model|.
UnionDedup ==
    StrategyCall("union") =>
        /\ result = FirstOfIdentity(flast.rules \o flast.ml)
        /\ (DuplicateFree(flast.rules) /\ DuplicateFree(flast.ml)) =>
              /\ Len(result) >= Max(Len(flast.rules), Len(flast.ml))
              /\ Len(result) <= Len(flast.rules) + Len(flast.ml)

\* the (source, target) pair of a candidate, in either order
PairOf(rel) == {rel.source, rel.target}

PairsOf(relations) == {PairOf(relations[i]) : i \in 1..Len(relations)}

\* C16: with strategy intersection the output has an entry for a (source,
\* target) pair exactly when the pair, in either order, occurs in both lists;
\* each such pair has one entry, of confidence c_rule * w_rule + c_model *
\* w_model for a rule and a model candidate of the pair, and of origin "both".
IntersectionPerPair ==
    StrategyCall("intersection") =>
        /\ PairsOf(result) = PairsOf(flast.rules) \cap PairsOf(flast.ml)
        /\ \A k, n \in 1..Len(result) : PairOf(result[k]) = PairOf(result[n]) => k = n
        /\ \A k \in 1..Len(result) :
              /\ result[k].ensemble_source = "both"
              /\ \E i \in 1..Len(flast.rules), j \in 1..Len(flast.ml) :
                    /\ PairOf(flast.rules[i]) = PairOf(result[k])
                    /\ PairOf(flast.ml[j]) = PairOf(result[k])
                    /\ result[k].confidence =
                          Weighted(flast.rules[i].confidence, rule_weight) +
                          Weighted(flast.ml[j].confidence, ml_weight)

\* what a candidate claims: its identity and its confidence
Core(rel) == <<rel.source, rel.target, rel.relationship, rel.confidence>>

\* C17: with strategy model_priority (ensemble_method "ml_priority") the
\* output holds every model candidate, unchanged, and after them a rule
\* candidate exactly when no model candidate has its (source, target) pair in
\* either order; with an empty rule list the output is the model list.
ModelPriority ==
    StrategyCall("ml_priority") =>
        LET n == Len(flast.ml)
            kept == SelectSeq(flast.rules, LAMBDA r : PairOf(r) \notin PairsOf(flast.ml))
        IN /\ Len(result) = n + Len(kept)
           /\ SubSeq(result, 1, n) = flast.ml
           /\ \A k \in 1..Len(kept) : Core(result[n + k]) = Core(kept[k])
           /\ flast.rules = <<>> => result = flast.ml

\* a model_priority call that left out a rule candidate whose pair the model
\* list holds in reversed order, and added a rule candidate on another pair
ModelPriorityWitness ==
    /\ StrategyCall("ml_priority")
    /\ \E i \in 1..Len(flast.rules), j \in 1..Len(flast.ml) :
          /\ flast.rules[i].source = flast.ml[j].target
          /\ flast.rules[i].target = flast.ml[j].source
          /\ \A k \in 1..Len(result) :
                Len(flast.ml) < k => PairOf(result[k]) # PairOf(flast.rules[i])
    /\ Len(result) > Len(flast.ml)
    /\ result[Len(result)].ensemble_source = "rules_supplement"

\* the condition of confidence_threshold on a candidate, given the list of
\* the other source
Qualifies(rel, other) ==
    \/ rel.confidence >= 8 * (One \div 10)
    \/ /\ rel.confidence >= 6 * (One \div 10)
       /\ rel.confidence < 8 * (One \div 10)
       /\ PairOf(rel) \in PairsOf(other)

\* the qualifying candidates of the last call
Qualified ==
    {flast.rules[i] : i \in {n \in 1..Len(flast.rules) : Qualifies(flast.rules[n], flast.ml)}}
    \cup
    {flast.ml[j] : j \in {n \in 1..Len(flast.ml) : Qualifies(flast.ml[n], flast.rules)}}

\* C18: with strategy confidence_threshold a candidate of either list is in
\* the output, up to deduplication by identity, if and only if its confidence
\* is >= 0.8, or is in [0.6, 0.8) while the other list holds a candidate on
\* the same pair in either order; no candidate below 0.6 is in the output.
ConfidenceThreshold ==
    StrategyCall("confidence_threshold") =>
        /\ \A k \in 1..Len(result) : result[k] \in Qualified
        /\ \A q \in Qualified :
              \E k \in 1..Len(result) : RelHash(result[k]) = RelHash(q)
        /\ \A k \in 1..Len(result) : result[k].confidence >= 6 * (One \div 10)

\* a confidence_threshold call that kept a candidate of confidence 0.6 for its
\* pair in the other list, dropped one of confidence 0.6 without such a pair,
\* and dropped one below 0.6
ConfidenceThresholdWitness ==
    /\ StrategyCall("confidence_threshold")
    /\ \E i, n \in 1..Len(flast.rules), j \in 1..Len(flast.ml) :
          /\ flast.rules[i].confidence = Conf(6)
          /\ flast.rules[n].confidence = Conf(6)
          /\ flast.ml[j].confidence = Conf(5)
          /\ PairOf(flast.rules[i]) = PairOf(flast.ml[j])
          /\ \E k \in 1..Len(result) : result[k] = flast.rules[i]
          /\ \A k \in 1..Len(result) : RelHash(result[k]) # RelHash(flast.rules[n])
          /\ \A k \in 1..Len(result) : RelHash(result[k]) # RelHash(flast.ml[j])

\* C19: for each of the five strategies and any two input lists, no two
\* entries of the fused output have the same identity triple (source, target,
\* relation type).
OutputDeduplicated ==
    (fcalls >= 1 /\ ensemble_method \in KnownMethods) =>
        \A k, n \in 1..Len(result) :
            (/\ result[k].source = result[n].source
             /\ result[k].target = result[n].target
             /\ result[k].relationship = result[n].relationship) => k = n

\* C20: when ensemble_method is none of the recognised names, the output for
\* any inputs is the weighted_union output for the same inputs, and the
\* fallback is logged.
UnknownMethodFallback ==
    (fcalls >= 1 /\ ensemble_method \notin KnownMethods) =>
        /\ result = ImprovedWeightedUnion(flast.rules, flast.ml, rule_weight, ml_weight).result
        /\ "unknown_method" \in flog

\* a call under an unrecognised ensemble_method returned a weighted candidate
\* and logged the fallback
UnknownMethodWitness ==
    /\ fcalls >= 1
    /\ ensemble_method \notin KnownMethods
    /\ "unknown_method" \in flog
    /\ Len(result) >= 1
    /\ result[1].ensemble_source \in {"rules", "ml"}
    /\ result[1].confidence < result[1].original_confidence

\* C21 as stated: the over-filtering warning is logged exactly when the fused
\* output has fewer than half as many entries as the larger of the two input
\* lists.
OverFilterWarningAsStated ==
    fcalls >= 1 =>
        ("loss_warning" \in flog <=>
            2 * Len(result) < Max(Len(flast.rules), Len(flast.ml)))

\* C21, amended: the over-filtering warning is logged exactly when the fused
\* output has fewer than half as many entries as the two input lists have
\* together.
OverFilterWarning ==
    fcalls >= 1 =>
        ("loss_warning" \in flog <=>
            2 * Len(result) < Len(flast.rules) + Len(flast.ml))

\* a call logged the warning although its output has at least half as many
\* entries as the larger input list
OverFilterWitness ==
    /\ fcalls >= 1
    /\ "loss_warning" \in flog
    /\ Len(result) >= 1
    /\ 2 * Len(result) >= Max(Len(flast.rules), Len(flast.ml))

\* C27: every chunk returned by _split_text_into_chunks(text, max_chunk_size)
\* has at most max_chunk_size characters, for every text.
ChunkSizeBound ==
    chunked => \A i \in 1..Len(chunks) : Len(chunks[i]) <= max_chunk_size

\* C28: the key of a tagging or relation result is a function of (content,
\* discriminator): equal pairs give equal keys, and two different pairs of one
\* cache never give the same string to the hash function.
KeysContentAddressed ==
    \A i, j \in 1..Len(key_log) :
        key_log[i].kind = key_log[j].kind =>
            IF /\ key_log[i].content = key_log[j].content
               /\ key_log[i].discriminator = key_log[j].discriminator
            THEN key_log[i].key = key_log[j].key
            ELSE key_log[i].hashed # key_log[j].hashed

\* ------------------------------------------------------------------
\* C24, C25: the aggregation of the chunk results
\* ------------------------------------------------------------------
\* the identity of an entity: its lower-cased text and its label
EntityIdentity(entity) == <<Lower(entity.text), entity.label>>

\* the identity of a relationship: source, target and type, case-insensitively
RelationshipIdentity(rel) == <<Lower(rel.source), Lower(rel.target), Lower(rel.type)>>

\* out holds exactly one item per identity found in all, and it is the
\* first item of all with that identity
OnePerIdentity(out, all, Identity(_)) ==
    /\ \A i, j \in 1..Len(out) : Identity(out[i]) = Identity(out[j]) => i = j
    /\ {Identity(out[i]) : i \in 1..Len(out)} = {Identity(all[i]) : i \in 1..Len(all)}
    /\ \A k \in 1..Len(out) :
          \E i \in 1..Len(all) :
             /\ all[i] = out[k]
             /\ \A j \in 1..(i - 1) : Identity(all[j]) # Identity(out[k])

\* C24: after the aggregation the result holds exactly one entity per
\* distinct (lower-cased text, label) found in the chunk results and exactly
\* one relationship per distinct (source, target, type) compared
\* case-insensitively, each the first occurrence in chunk order.
AggregationOnePerIdentity ==
    acalls >= 1 =>
        /\ OnePerIdentity(aggregated.entities, ExtendAll(chunk_results).entities,
                          EntityIdentity)
        /\ OnePerIdentity(aggregated.relationships,
                          ExtendAll(chunk_results).relationships, RelationshipIdentity)

\* C25: deduplication is idempotent: applied to its own output it returns
\* that output, and applied a second time to the same chunk-result list it
\* returns what it returned the first time.
DedupIdempotent ==
    /\ again # NoAggregate => again = aggregated
    /\ acalls >= 2 => aggregated = previous

\* C25 witness: an aggregation that dropped a duplicate entity and a
\* duplicate relationship was run twice and then deduplicated again
DedupIdempotentWitness ==
    /\ acalls = 2
    /\ again = aggregated
    /\ aggregated = previous
    /\ Len(aggregated.entities) >= 2
    /\ Len(aggregated.entities) < Len(ExtendAll(chunk_results).entities)
    /\ Len(aggregated.relationships) < Len(ExtendAll(chunk_results).relationships)

\* ------------------------------------------------------------------
\* C30: failures of the cache
\* ------------------------------------------------------------------
\* C30: a cache on which a call is made has a valid capacity (constructing
\* one with a max_size below 1 fails), and no call of get, set, invalidate,
\* clear or stats on a constructed cache raises.
CacheFailsOnlyAtConstruction ==
    last.op # "none" =>
        /\ max_size >= 1
        /\ last.result # Raised

\* ------------------------------------------------------------------
\* C22: run_streaming and failing chunks
\* ------------------------------------------------------------------
\* the chunks run_streaming is through with
ChunksHandled == IF phase = "processing" THEN chunk_number - 1 ELSE chunk_number

\* C22: a failure while processing a chunk does not end the stream: the
\* stream closes only once the whole source has been read, and of the chunks
\* handled so far exactly those whose processing did not fail, the failures
\* being the ones logged, have one result yielded each, in source order.
StreamSurvivesChunkFailure ==
    LET failed == {slog[i] : i \in 1..Len(slog)}
    IN /\ [i \in 1..Len(yielded) |-> yielded[i].chunk_number]
             = SelectSeq([c \in 1..ChunksHandled |-> c], LAMBDA c : c \notin failed)
       /\ failed \subseteq 1..ChunksHandled
       /\ Cardinality(failed) = Len(slog)
       /\ phase = "closed" => spos = Len(text)
       /\ \A i \in 1..Len(yielded) :
             yielded[i].chunk_size
                 = Min(chunk_size, Len(text) - (yielded[i].chunk_number - 1) * chunk_size)

\* C22 witness: the stream has ended after a first chunk whose processing
\* failed and a later chunk whose result was yielded
StreamSurvivesWitness ==
    /\ phase = "closed"
    /\ slog = <<1>>
    /\ Len(yielded) >= 1
    /\ yielded[1].chunk_number = 2

\* ------------------------------------------------------------------
\* C23, C26, C29: run_single and the caches
\* ------------------------------------------------------------------
\* C23: an exception raised by a cache read or write of the orchestrator is
\* absorbed: no run_single call ends with a cache exception.
CacheFailuresAbsorbed ==
    \A n \in 1..Len(outcomes) : outcomes[n].cause # "cache"

\* the identities found in the results of the chunk tasks
TaskEntityIdentities ==
    UNION {{EntityIdentity(tasks[i].entities[k]) : k \in 1..Len(tasks[i].entities)} :
              i \in 1..Len(tasks)}

TaskRelationshipIdentities ==
    UNION {{RelationshipIdentity(tasks[i].relationships[k]) :
               k \in 1..Len(tasks[i].relationships)} : i \in 1..Len(tasks)}

\* C26: whatever the order in which the chunk tasks ended, the entity
\* identities and the relationship identities of the result are those found
\* in the results of the chunk tasks.
ResultIdentitiesOrderFree ==
    phase = "store" =>
        /\ {EntityIdentity(aggregated.entities[k]) : k \in 1..Len(aggregated.entities)}
               = TaskEntityIdentities
        /\ {RelationshipIdentity(aggregated.relationships[k]) :
               k \in 1..Len(aggregated.relationships)} = TaskRelationshipIdentities

\* C26 witness: the second chunk's task ended before the first chunk's, and
\* the aggregation dropped a duplicate
ResultIdentitiesWitness ==
    /\ phase = "store"
    /\ ended = <<2, 1>>
    /\ Len(aggregated.entities) < Len(tasks[1].entities) + Len(tasks[2].entities)
    /\ Len(aggregated.entities) >= 2

\* C29: once a run_single with use_cache has succeeded, the next run on the
\* same source invokes neither the extractor nor a processor, and what it
\* returns has the entities and relationships of the first.
SecondRunFromCaches ==
    (use_cache /\ run = 2 /\ outcomes[1].status = "ok") =>
        /\ \A v \in invoked : v.run # 2
        /\ (Len(outcomes) = 2 /\ outcomes[2].status = "ok") =>
              /\ outcomes[2].entities = outcomes[1].entities
              /\ outcomes[2].relationships = outcomes[1].relationships

\* C34: a set on a key that is resident and has not expired replaces that
\* key's entry only: it removes no non-expired entry of another key, whatever
\* the fill level of the cache.
SetOnResidentKeepsOthers ==
    (last.op = "set" /\ \E i \in 1..Len(last.lru) : last.lru[i] = last.key)
        => \A i \in 1..Len(last.evicted) : last.evicted[i] = last.key

\* ------------------------------------------------------------------
\* C40: chunking keeps every sentence once and in order
\* ------------------------------------------------------------------
\* the sentences each followed by the separator the loop appends to them
RECURSIVE JoinSentences(_)
JoinSentences(sentences) ==
    IF sentences = <<>> THEN <<>>
    ELSE Head(sentences) \o <<".", " ">> \o JoinSentences(Tail(sentences))

\* the sentences that g assigns to chunk j, in their order
SentencesIn(sentences, g, j) ==
    LET idx == {i \in 1..Len(sentences) : g[i] = j}
    IN SubSeq(sentences, CHOOSE i \in idx : \A k \in idx : i <= k,
                         CHOOSE i \in idx : \A k \in idx : k <= i)

FusionLeavesInputs ==
    fcalls >= 1 => (rule_relations = flast.rules /\ ml_relations = flast.ml)

\* every confidence of the list lies in [0, 1]
InUnitRange(relations) ==
    \A i \in 1..Len(relations) :
        0 <= relations[i].confidence /\ relations[i].confidence <= One

\* C38: for candidates whose confidences lie in [0, 1] and a rule weight and
\* a model weight in [0, 1], every candidate a fusion call returns has a
\* confidence in [0, 1].
FusedConfidenceInUnitRange ==
    (/\ fcalls >= 1
     /\ InUnitRange(flast.rules) /\ InUnitRange(flast.ml)
     /\ rule_weight \in 0..100 /\ ml_weight \in 0..100)
        => InUnitRange(result)

\* ------------------------------------------------------------------
\* C33: what a run returns without the caches
\* ------------------------------------------------------------------
\* the processors' outputs on the chunks of the text, joined and deduplicated
ProcessorResults ==
    LET split == SplitTextIntoChunks(text, max_chunk_size)
    IN AggregateChunkResults(
           [i \in 1..Len(split) |->
               [entities |-> ProcessorOutput("NERProcessor", split[i]),
                relationships |-> ProcessorOutput("RelationExtractor", split[i])]])

\* C33: with deterministic processors and caches that are empty when the run
\* starts, run_single returns the entities and relationships the processors
\* produce on the chunks, with use_cache = False as with use_cache = True.
UncachedRunReturnsProcessorOutput ==
    (Len(outcomes) >= 1 /\ outcomes[1].status = "ok")
        => /\ outcomes[1].entities = ProcessorResults.entities
           /\ outcomes[1].relationships = ProcessorResults.relationships

\* ------------------------------------------------------------------
\* C37: a failed run and its remaining chunk tasks
\* ------------------------------------------------------------------
\* the latest run_single has ended with the error of one of its chunk tasks
RunEndedByChunkFailure ==
    /\ phase = "idle"
    /\ Len(outcomes) = run
    /\ run >= 1
    /\ outcomes[run].cause \in {"processor", "cache"}

\* C37: once a run_single has ended with an error because one of its chunk
\* tasks failed, no processor invocation and no cache write of that run
\* happens afterwards.
NoWorkAfterFailedRun ==
    [][(RunEndedByChunkFailure /\ run' = run)
          => UNCHANGED <<invoked, ner_cache, relation_cache, text_cache, tasks>>]_vars

\* ------------------------------------------------------------------
\* C36: run_batch terminates and gives every permit back
\* ------------------------------------------------------------------
\* C36: if every run_single terminates, run_batch returns; no source waits
\* for a permit for ever, and once run_batch has returned every permit that
\* was acquired has been released, those of the failed runs included.
BatchTerminates ==
    /\ <>[](bpc = "returned")
    /\ \A s \in Sources : <>(rpc[s] # "waiting")
    /\ [](bpc = "returned" => permits = max_concurrent)

\* C36 witness: run_batch has returned after more sources than permits, one
\* run failed and one succeeded, and the semaphore is back at its full value
BatchTerminatesWitness ==
    /\ bpc = "returned"
    /\ NumSources > max_concurrent
    /\ \E s \in Sources : rpc[s] = "failed"
    /\ \E s \in Sources : rpc[s] = "done"
    /\ permits = max_concurrent

\* ------------------------------------------------------------------
\* C39: each category cache holds entries of its own category only
\* ------------------------------------------------------------------
\* C39: under any sequence of pipeline runs and cache-decorated processor
\* calls, every write puts a text into the extracted-text cache, a tagging
\* result into the tagging cache and a relation result into the relation
\* cache: no cache receives a result of another category.
CachesHoldOwnCategory == \A w \in writes : w.cache = w.category

\* ------------------------------------------------------------------
\* C31: use_cache false leaves the three caches as they were
\* ------------------------------------------------------------------
\* C31: when use_cache is false no read and no write happens on any of the
\* three category caches during the run: the caches, empty before the first
\* run, are still empty at every step of the runs.
UseCacheOffLeavesCaches ==
    ~use_cache =>
        /\ DOMAIN text_cache = {}
        /\ DOMAIN ner_cache = {}
        /\ DOMAIN relation_cache = {}

\* ------------------------------------------------------------------
\* C32: processors in list order, chained, blocking ones in the pool
\* ------------------------------------------------------------------
\* the processors of a chunk are called in the order of the list
CalledInListOrder ==
    \A i \in 1..Len(received) :
        \A k \in 1..(Len(received[i]) - 1) : received[i][k].at < received[i][k + 1].at

\* a processor behind the first is handed what the processor before it in
\* the list produced, the first is handed the chunk
HandedPreviousOutput ==
    \A i \in 1..Len(received) :
        \A k \in 1..Len(received[i]) :
            LET r == received[i][k]
            IN IF r.at = 1 THEN r.data = StrData(chunks[i])
               ELSE processors[r.at - 1].adds \in r.data.fields

\* a processor with process_async is awaited through it, any other one is
\* a job of the worker pool
InvokedThroughOwnForm ==
    \A i \in 1..Len(tasks) :
        /\ tasks[i].pc = "async" => processors[tasks[i].at].form = "process_async"
        /\ tasks[i].pc \in {"queued", "running"} => processors[tasks[i].at].form = "process"

\* no more than max_workers blocking calls run at a time
PoolBounded == Running <= max_workers

\* C32: for each chunk the processors are applied in list order, each
\* receiving the previous processor's output; a processor with the
\* non-blocking form is invoked through it and every other one only inside
\* the worker pool, where at most max_workers blocking calls (extraction,
\* blocking processors, storage) execute at any moment.
ProcessorsChainedAndPooled ==
    /\ CalledInListOrder
    /\ HandedPreviousOutput
    /\ InvokedThroughOwnForm
    /\ PoolBounded

====
